---- MODULE Spec2Model ----
(***************************************************************************)
(* Verification model of the geared-motor position loop                    *)
(* (src/gear-motor-has-hall-sentor, src/newTemp/N-meas.py).                *)
(*                                                                         *)
(* Numbers.  The program computes in floating point; the model computes    *)
(* in fixed point:                                                         *)
(*   angles, setpoints, errors        integer degrees                      *)
(*   gains kp, ki, kd                 hundredths            (x 100)        *)
(*   sample_time, clock               milliseconds          (seconds x1000)*)
(*   integral, integral_limit         milli degree-seconds  (x 1000)       *)
(*   derivative, last_derivative      tenths of degree/s    (x 10)         *)
(*   output, limits, p/i/d terms      thousandths of percent (x 1000)      *)
(* Divisions that are inexact in fixed point round toward minus infinity.  *)
(***************************************************************************)
EXTENDS Integers, Sequences, FiniteSets, TLC

VARIABLES
    pid,        \* PIDController instance: its fields
    now,        \* utime.ticks_ms()
    call,       \* the last PIDController call: operation, inputs, return value
    pinA, pinB, \* the two hall sensor lines (Pin.value() of A and of B)
    lut,        \* N-meas.py globals: count, prev
    enc,        \* EncoderReader instance: its fields
    irq,        \* the last edge-handler invocation: what it saw and the count before it
    trace,      \* the phases the edge handler recorded, oldest first (at most TraceLen)
    base,       \* the count when each phase of trace was recorded
    which,      \* the program that runs: "enc" (EncoderReader) or "lut" (N-meas.py)
    pending,    \* edge interrupts raised and not yet served
    isr,        \* the edge handler in progress: its position and its locals
    thr,        \* the control thread: the operation in progress, its locals, and
                \* the counts that stood at completed handlers since its read began
    rd,         \* the last value the control thread read from the count
    motor,      \* MotorDriver instance: speed, direction pins, PWM duty
    loop,       \* the control loop that runs: which one, its position, its cycle
    sent,       \* the last motor command: the call and the speed passed to it
    sample,     \* the last sample a step experiment recorded
    wizard,     \* PIDTuningWizard: the recorded samples and their analysis
    tuning,     \* PIDTuningWizard.auto_tuning: its position, its locals, the
                \* experiments it has run
    ctl,        \* MotorAngleController: is_running, current_mode, target_angle,
                \* last_update_time, and the last method called on it
    servo       \* Servo instance: _attached, _pwm, and the PWM objects it made

pidVars == <<pid, now, call>>
decVars == <<pinA, pinB, lut, enc, irq, trace, base>>
ctxVars == <<which, pending, isr, thr, rd>>
loopVars == <<motor, loop, sent, sample, wizard, tuning, ctl, servo>>
vars == <<pidVars, decVars, ctxVars, loopVars>>

(***************************************************************************)
(* Bounds of the model                                                     *)
(***************************************************************************)
MaxTime == 30          \* the clock runs from 0 to MaxTime milliseconds
MaxCount == 6          \* edges are generated while |count| < MaxCount
MaxPending == 2        \* edge interrupts that can wait to be served, or preempt one read
MaxEdges == 4          \* edges raised while a preempted decoder is away from count 0
MaxCycles == 3         \* cycles of a control loop (range(int(test_time * 100)) in the code)
MaxSamples == 3        \* samples a recorded response holds
MaxSpeedTime == 125    \* the clock of the velocity reads runs from 0 to MaxSpeedTime milliseconds

Abs(x) == IF x < 0 THEN -x ELSE x
Min2(a, b) == IF a < b THEN a ELSE b
Max2(a, b) == IF a > b THEN a ELSE b

(***************************************************************************)
(* utime.ticks_diff(a, b): the clock does not wrap inside 0..MaxTime       *)
(***************************************************************************)
ticks_diff(a, b) == a - b

(***************************************************************************)
(* PIDController (pid_controller.py)                                       *)
(***************************************************************************)
\* constructor arguments the repository uses: the defaults of __init__ and
\* config.PID_CONFIGS['balanced']
PidConfigs ==
    { [kp |-> 100, ki |-> 0,  kd |-> 0,  output_min |-> -100000, output_max |-> 100000, sample_time |-> 10],
      [kp |-> 200, ki |-> 40, kd |-> 12, output_min |-> -75000,  output_max |-> 75000,  sample_time |-> 10] }

\* gains handed to set_tunings: (kp, ki, kd) in hundredths
Tunings == { <<100, 0, 0>>, <<300, 30, 20>> }

\* setpoints and measured angles, in degrees
Setpoints == { 0, 90 }
Measured  == { -9000, 45, 9000 }

\* derivative_filter_alpha = 0.1, in tenths
derivative_filter_alpha == 1

\* self.integral_limit = output_max * 0.8   (x1000, like the output)
IntegralLimitOf(output_max) == (output_max * 8) \div 10

PIDController_init(kp, ki, kd, setpoint, output_min, output_max, sample_time, t) ==
    [ kp |-> kp, ki |-> ki, kd |-> kd, setpoint |-> setpoint,
      output_min |-> output_min, output_max |-> output_max,
      sample_time |-> sample_time,
      last_error |-> 0, integral |-> 0, last_time |-> t,
      output |-> 0,
      error |-> 0, p_term |-> 0, i_term |-> 0, d_term |-> 0,
      integral_limit |-> IntegralLimitOf(output_max),
      last_derivative |-> 0 ]

\* (mutant) the gate with its comparison inverted
RateLimitedInverted(p, t) == ticks_diff(t, p.last_time) > p.sample_time

\* the sample-time gate of update: TRUE when the call is rate-limited
RateLimited(p, t) == ticks_diff(t, p.last_time) < p.sample_time

\* (mutant) the accumulator clamped on the positive side only
ClampIntegralUpperOnly(i, limit) == IF i > limit THEN limit ELSE i

\* anti-windup clamp of the accumulator
ClampIntegral(i, limit) ==
    IF i > limit THEN limit
    ELSE IF i < -limit THEN -limit
    ELSE i

\* (mutant) the output limited on the negative side only
ClampOutputLowerOnly(o, lo, hi) == IF o < lo THEN lo ELSE o

\* output limiting
ClampOutput(o, lo, hi) ==
    IF o > hi THEN hi
    ELSE IF o < lo THEN lo
    ELSE o

\* (mutant) an accepted cycle whose output is the proportional term alone
ComputeProportionalOnly(p, t, current_value) ==
    LET error      == p.setpoint - current_value
        p_term     == p.kp * error * 10
        integral   == ClampIntegral(p.integral + error * p.sample_time, p.integral_limit)
        i_term     == (p.ki * integral) \div 100
        derivative == ((error - p.last_error) * 10000) \div p.sample_time
        filtered   == (derivative_filter_alpha * derivative
                        + (10 - derivative_filter_alpha) * p.last_derivative) \div 10
        d_term     == p.kd * filtered
        output     == ClampOutput(p_term, p.output_min, p.output_max)
    IN  [p EXCEPT !.error = error, !.p_term = p_term, !.integral = integral,
                  !.i_term = i_term, !.d_term = d_term,
                  !.last_derivative = filtered, !.output = output,
                  !.last_error = error, !.last_time = t]

\* one accepted cycle of update: the controller after the computation
Compute(p, t, current_value) ==
    LET error      == p.setpoint - current_value
        p_term     == p.kp * error * 10
        integral   == ClampIntegral(p.integral + error * p.sample_time, p.integral_limit)
        i_term     == (p.ki * integral) \div 100
        derivative == ((error - p.last_error) * 10000) \div p.sample_time
        filtered   == (derivative_filter_alpha * derivative
                        + (10 - derivative_filter_alpha) * p.last_derivative) \div 10
        d_term     == p.kd * filtered
        output     == ClampOutput(p_term + i_term + d_term, p.output_min, p.output_max)
    IN  [p EXCEPT !.error = error, !.p_term = p_term, !.integral = integral,
                  !.i_term = i_term, !.d_term = d_term,
                  !.last_derivative = filtered, !.output = output,
                  !.last_error = error, !.last_time = t]

\* an accepted update divides (error - last_error) by sample_time
DividesByZero(p, t) == ~RateLimited(p, t) /\ p.sample_time = 0

\* update(current_value) left by ZeroDivisionError at the derivative: the
\* stores made before the division stand, the later ones are not made
UpdateRaised(p, t, current_value) ==
    LET error    == p.setpoint - current_value
        integral == ClampIntegral(p.integral + error * p.sample_time, p.integral_limit)
    IN  [p EXCEPT !.error = error, !.p_term = p.kp * error * 10,
                  !.integral = integral, !.i_term = (p.ki * integral) \div 100]

\* (mutant) an update that stores the error before it looks at the gate
update_stores_error_first(p, t, current_value) ==
    IF RateLimited(p, t) THEN [p EXCEPT !.error = p.setpoint - current_value]
    ELSE IF DividesByZero(p, t) THEN UpdateRaised(p, t, current_value)
    ELSE Compute(p, t, current_value)

\* update(current_value): the controller after the call
PIDController_update(p, t, current_value) ==
    IF RateLimited(p, t) THEN p
    ELSE IF DividesByZero(p, t) THEN UpdateRaised(p, t, current_value)
    ELSE Compute(p, t, current_value)

PIDController_set_tunings(p, kp, ki, kd) ==
    [p EXCEPT !.kp = kp, !.ki = ki, !.kd = kd]

\* (mutant) set_setpoint that keeps the accumulator
set_setpoint_keeps_integral(p, setpoint) == [p EXCEPT !.setpoint = setpoint]

PIDController_set_setpoint(p, setpoint) ==
    [p EXCEPT !.setpoint = setpoint, !.integral = 0]

\* (mutant) a reset that leaves the output standing
reset_keeps_output(p, t) ==
    [p EXCEPT !.last_error = 0, !.integral = 0, !.last_time = t,
              !.last_derivative = 0]

PIDController_reset(p, t) ==
    [p EXCEPT !.last_error = 0, !.integral = 0, !.last_time = t,
              !.output = 0, !.last_derivative = 0]

(***************************************************************************)
(* Quadrature decoding: the sensor lines and the handlers' history         *)
(***************************************************************************)
Bit == {0, 1}

\* the phase of the two lines: (A << 1) | B
Phase(a, b) == a * 2 + b


NoIrq == [ran |-> FALSE, last_a |-> 0, last_b |-> 0, a |-> 0, b |-> 0, before |-> 0]

\* phases of the forward and of the reverse rotation, as (A << 1) | B
ForwardSequence == <<0, 1, 3, 2, 0>>
ReverseSequence == <<0, 2, 3, 1, 0>>

\* the recorded phases hold the last five: four edges and their starting phase
TraceLen == Len(ForwardSequence)

Remember(seq, x) ==
    IF Len(seq) < TraceLen THEN Append(seq, x) ELSE Append(Tail(seq), x)

(***************************************************************************)
(* N-meas.py: lookup-table decoder                                         *)
(***************************************************************************)
lookup == << 0,  1, -1,  0,
            -1,  0,  0,  1,
             1,  0,  0, -1,
             0, -1,  1,  0 >>

\* (mutant) the index built as (curr << 2) | prev
LookupDeltaSwapped(prev, curr) == lookup[(curr * 4 + prev) + 1]

\* lookup[idx] of a Python list: TLA+ sequences start at 1
LookupDelta(prev, curr) == lookup[(prev * 4 + curr) + 1]

\* (mutant) a handler that counts a jump of both lines as two steps
irq_handler_counts_jumps(g, a, b) ==
    LET curr == Phase(a, b)
    IN  [count |-> g.count + (IF g.prev + curr = 3 THEN 2 ELSE LookupDelta(g.prev, curr)),
         prev |-> curr]

\* irq_handler(pin), with the lines reading a, b
irq_handler(g, a, b) ==
    LET curr == Phase(a, b)
    IN  [count |-> g.count + LookupDelta(g.prev, curr), prev |-> curr]

\* reset_count(), with the lines reading a, b
reset_count(g, a, b) == [count |-> 0, prev |-> Phase(a, b)]

(***************************************************************************)
(* EncoderReader (encoder_reader.py)                                       *)
(***************************************************************************)
EncoderReader_init(a, b, ppr, gear_ratio, t) ==
    [ ppr |-> ppr, gear_ratio |-> gear_ratio, total_ppr |-> ppr * gear_ratio,
      count |-> 0, last_count |-> 0, total_count |-> 0, overflow_count |-> 0,
      last_time |-> t, speed |-> 0, angle_speed |-> 0,
      last_a_state |-> a, last_b_state |-> b ]

\* (mutant) an edge of A counted as two steps when B changed with it
EncoderDeltaJumpCounted(e, a, b) ==
    IF a # e.last_a_state
    THEN (IF b # e.last_b_state THEN 2 ELSE 1) * (IF a # b THEN 1 ELSE -1)
    ELSE IF b # e.last_b_state
         THEN (IF b = a THEN 1 ELSE -1)
         ELSE 0

\* the count change _encoder_irq applies when the lines read a, b
EncoderDelta(e, a, b) ==
    IF a # e.last_a_state
    THEN (IF a # b THEN 1 ELSE -1)
    ELSE IF b # e.last_b_state
         THEN (IF b = a THEN 1 ELSE -1)
         ELSE 0

\* _encoder_irq(pin), with the lines reading a, b
EncoderReader_encoder_irq(e, a, b) ==
    [e EXCEPT !.count = e.count + EncoderDelta(e, a, b),
              !.last_a_state = a, !.last_b_state = b,
              !.total_count = e.total_count + 1]

\* reset()
EncoderReader_reset(e) ==
    [e EXCEPT !.count = 0, !.total_count = 0, !.overflow_count = 0,
              !.last_count = 0, !.speed = 0, !.angle_speed = 0]

\* get_count()
EncoderReader_get_count(e) == e.count

\* floor(x * 1000 / d) for d > 0, computed by parts to stay within 32 bits
Thousandths(x, d) == (x \div d) * 1000 + ((x % d) * 1000) \div d

\* (mutant) the angle within the current revolution only
AngleOfWrapped(count, total_ppr) ==
    Thousandths((count % total_ppr) * 360, total_ppr)

\* (count / total_ppr) * 360.0, in thousandths of a degree
AngleOf(count, total_ppr) ==
    (count \div total_ppr) * 360000 + Thousandths((count % total_ppr) * 360, total_ppr)

\* count / total_ppr, in thousandths of a revolution
RevolutionsOf(count, total_ppr) == Thousandths(count, total_ppr)

\* get_angle(), get_revolutions()
EncoderReader_get_angle(e) == AngleOf(e.count, e.total_ppr)
EncoderReader_get_revolutions(e) == RevolutionsOf(e.count, e.total_ppr)

\* the minimum window of update_speed, in ms
SpeedWindow == 50

\* (mutant) the window compared with > in place of >=
SpeedDueStrict(e, t) == ticks_diff(t, e.last_time) > SpeedWindow

\* if time_diff >= 50
SpeedDue(e, t) == ticks_diff(t, e.last_time) >= SpeedWindow

\* (count_diff / total_ppr) * 60000 / time_diff, in thousandths of a
\* revolution per minute
RpmOf(count_diff, total_ppr, time_diff) ==
    (count_diff * 60000000) \div (total_ppr * time_diff)

\* (mutant) an update_speed that empties the count into the velocity
update_speed_consumes_count(e, t) ==
    IF SpeedDue(e, t)
    THEN LET speed == RpmOf(e.count - e.last_count, e.total_ppr, ticks_diff(t, e.last_time))
         IN  [e EXCEPT !.speed = speed, !.angle_speed = speed * 6,
                       !.count = 0, !.last_count = 0, !.last_time = t]
    ELSE e

\* update_speed() at time t; angle_speed = speed * 360.0 / 60.0
EncoderReader_update_speed(e, t) ==
    IF SpeedDue(e, t)
    THEN LET speed == RpmOf(e.count - e.last_count, e.total_ppr, ticks_diff(t, e.last_time))
         IN  [e EXCEPT !.speed = speed, !.angle_speed = speed * 6,
                       !.last_count = e.count, !.last_time = t]
    ELSE e

\* get_speed_rpm(), get_speed_deg_per_sec(): the value returned by an encoder
\* that update_speed has brought to e
SpeedResult(op, e) == IF op = "get_speed_rpm" THEN e.speed ELSE e.angle_speed

\* config.HARDWARE_CONFIG['encoder']: ppr = 330, gear_ratio = 30
ConfigPpr == 330
ConfigGearRatio == 30

ParkedDecoder ==
    /\ pinA = 1 /\ pinB = 1
    /\ lut = [count |-> 0, prev |-> Phase(1, 1)]
    /\ enc = EncoderReader_init(1, 1, ConfigPpr, ConfigGearRatio, 0)
    /\ irq = NoIrq
    /\ trace = << >>
    /\ base = << >>


(***************************************************************************)
(* The controller driven by arbitrary calls                                *)
(***************************************************************************)
\* call.within: the call was made less than sample_time after the last accepted
\* update (or construction, or reset); call.before: the accumulator before the
\* call; call.raised: the exception the call was left by (then call.ret is the
\* stored output, no value having been returned)
NoCall == [op |-> "init", arg |-> 0, ret |-> 0, within |-> FALSE, before |-> 0,
           prev_op |-> "init", prev_ret |-> 0, raised |-> "none"]

Called(op, arg, ret) ==
    [op |-> op, arg |-> arg, ret |-> ret,
     within |-> (now - pid.last_time < pid.sample_time), before |-> pid.integral,
     prev_op |-> call.op, prev_ret |-> call.ret,
     raised |-> IF op = "update" /\ DividesByZero(pid, now)
                THEN "ZeroDivisionError" ELSE "none"]

(***************************************************************************)
(* MotorDriver (motor_driver.py); speeds in thousandths of a percent       *)
(***************************************************************************)
\* stop(): active brake
MotorDriver_stop(m) == [m EXCEPT !.in1 = 1, !.in2 = 1, !.duty = 65535, !.speed = 0]

\* coast(): power cut, no brake
MotorDriver_coast(m) == [m EXCEPT !.in1 = 0, !.in2 = 0, !.duty = 0, !.speed = 0]

\* (mutant) the duty of the whole percents of the speed only
DutyOfWholePercent(s) == ((Abs(s) \div 1000) * 65535) \div 100

\* int(abs(speed) * 65535 / 100) for a speed s in thousandths of a percent:
\* floor(s * 65535 / 100000), computed in two parts to stay within 32 bits
DutyOf(s) ==
    LET whole == Abs(s) \div 1000
        frac  == Abs(s) % 1000
    IN  (whole * 655350 + (frac * 65535) \div 100) \div 1000

\* set_speed(speed)
MotorDriver_set_speed(m, speed) ==
    LET s    == Max2(-100000, Min2(100000, speed))
        duty == DutyOf(s)
    IN  IF s > 0 THEN [m EXCEPT !.speed = s, !.in1 = 1, !.in2 = 0, !.duty = duty]
        ELSE IF s < 0 THEN [m EXCEPT !.speed = s, !.in1 = 0, !.in2 = 1, !.duty = duty]
        ELSE MotorDriver_stop([m EXCEPT !.speed = s])

\* __init__: speed = 0, then stop()
MotorDriver_init == MotorDriver_stop([speed |-> 0, in1 |-> 0, in2 |-> 0, duty |-> 0])

\* the driver holds the motor braked
Braked(m) == m.in1 = 1 /\ m.in2 = 1 /\ m.duty = 65535 /\ m.speed = 0

\* a settling time: None, or a time in ms
None == [none |-> TRUE, time |-> 0]
Number(t) == [none |-> FALSE, time |-> t]

\* the recorded samples of a step test and the settling time computed from them
\* (rise_time, settling_time: of step_test; tuner_rise_time: of
\* PIDTuner._analyze_step_response on the same samples)
NoAnalysis == [data |-> << >>, analysed |-> FALSE, settling_time |-> None,
               rise_time |-> None, tuner_rise_time |-> None,
               oscillation_count |-> 0, overshoot |-> 0, tuner_overshoot |-> 0,
               steady_state_error |-> 0, tuner_steady_state_error |-> 0,
               scored |-> FALSE, score |-> 0]

\* auto_tuning before it starts; gains in ten-thousandths
\* (best_score = 0, best_params = {'kp': 0.5, 'ki': 0.0, 'kd': 0.0})
NoTuning == [pc |-> "idle", next |-> 1, critical_kp |-> 0,
             best_score |-> 0, best_params |-> <<5000, 0, 0>>,
             sweep |-> << >>, variants |-> << >>, final |-> << >>]

\* MotorAngleController after __init__
NoController == [is_running |-> FALSE, current_mode |-> "IDLE", target_angle |-> 0,
                 last_update_time |-> 0, op |-> "init"]

\* Servo(pin, start_attached=False) after __init__: no PWM object yet
\* (pwm = 0 stands for None; PWM objects are numbered from 1)
NoServo == [attached |-> FALSE, pwm |-> 0, live |-> {}, made |-> 0, duty |-> 0,
            op |-> "init", raised |-> "none"]

NoCommand == [cmd |-> "none", speed |-> 0]
NoSample  == [valid |-> FALSE, angle |-> 0, error |-> 0, output |-> 0]

ParkedLoop ==
    /\ motor = MotorDriver_init
    /\ loop = [kind |-> "none", pc |-> "idle", i |-> 0]
    /\ sent = NoCommand
    /\ sample = NoSample
    /\ wizard = NoAnalysis
    /\ tuning = NoTuning
    /\ ctl = NoController
    /\ servo = NoServo

IsrIdle == [pc |-> "idle", a |-> 0, b |-> 0]
ThrIdle == [pc |-> "idle", op |-> "none", local |-> 0, n |-> 0, win |-> {}]
\* rd.pre: the encoder and the time when the call was made
NoRead  == [valid |-> FALSE, op |-> "none", value |-> 0, win |-> {}, raised |-> "none",
            pre |-> << >>]

ParkedContexts ==
    /\ which = "enc"
    /\ pending = 0
    /\ isr = IsrIdle
    /\ thr = ThrIdle
    /\ rd = NoRead

ParkedPID ==
    /\ now = 0
    /\ pid = PIDController_init(100, 0, 0, 0, -100000, 100000, 10, 0)
    /\ call = NoCall

InitPID ==
    /\ ParkedLoop
    /\ ParkedDecoder
    /\ ParkedContexts
    /\ now = 0
    /\ \E c \in PidConfigs, s \in Setpoints :
          pid = PIDController_init(c.kp, c.ki, c.kd, s, c.output_min, c.output_max,
                                   c.sample_time, 0)
    /\ call = NoCall

Tick ==
    /\ \E d \in {5, 10} :
          /\ now + d <= MaxTime
          /\ now' = now + d
    /\ UNCHANGED <<pid, call, decVars, ctxVars, loopVars>>

Update ==
    \E v \in Measured :
        /\ pid' = PIDController_update(pid, now, v)
        /\ call' = Called("update", v, pid'.output)
        /\ UNCHANGED <<now, decVars, ctxVars, loopVars>>

SetSetpoint ==
    \E v \in Setpoints :
        /\ pid' = PIDController_set_setpoint(pid, v)
        /\ call' = Called("set_setpoint", v, 0)
        /\ UNCHANGED <<now, decVars, ctxVars, loopVars>>

SetTunings ==
    \E g \in Tunings :
        /\ pid' = PIDController_set_tunings(pid, g[1], g[2], g[3])
        /\ call' = Called("set_tunings", 0, 0)
        /\ UNCHANGED <<now, decVars, ctxVars, loopVars>>

Reset ==
    /\ pid' = PIDController_reset(pid, now)
    /\ call' = Called("reset", 0, 0)
    /\ UNCHANGED <<now, decVars, ctxVars, loopVars>>

NextPID == Tick \/ Update \/ SetSetpoint \/ SetTunings \/ Reset

SpecPID == InitPID /\ [][NextPID]_vars

(***************************************************************************)
(* The controller constructed with any sample_time, then driven by the     *)
(* same calls                                                              *)
(***************************************************************************)
\* sample_time values handed to PIDController.__init__, in ms
SampleTimes == {-10, 0, 10}

InitCfg ==
    /\ ParkedLoop
    /\ ParkedDecoder
    /\ ParkedContexts
    /\ now = 0
    /\ \E st \in SampleTimes, s \in Setpoints :
          pid = PIDController_init(200, 40, 12, s, -75000, 75000, st, 0)
    /\ call = NoCall

\* one cycle of a caller's loop: update(v), then utime.sleep(0.01)
CfgCycle ==
    \E v \in Measured :
        /\ now + 10 <= MaxTime
        /\ pid' = PIDController_update(pid, now, v)
        /\ call' = Called("update", v, pid'.output)
        /\ now' = now + 10
        /\ UNCHANGED <<decVars, ctxVars, loopVars>>

NextCfg == CfgCycle \/ SetSetpoint \/ SetTunings \/ Reset

SpecCfg == InitCfg /\ [][NextCfg]_vars

(***************************************************************************)
(* The lookup-table decoder driven by edges, each handled before the next  *)
(***************************************************************************)
InitLUT ==
    /\ ParkedLoop
    /\ ParkedPID
    /\ ParkedContexts
    /\ pinA \in Bit /\ pinB \in Bit
    /\ lut = [count |-> 0, prev |-> Phase(pinA, pinB)]
    /\ enc = EncoderReader_init(1, 1, ConfigPpr, ConfigGearRatio, 0)
    /\ irq = NoIrq
    /\ trace = <<Phase(pinA, pinB)>>
    /\ base = <<0>>

\* the lines move to (a, b) and irq_handler runs
LutIrq ==
    \E a \in Bit, b \in Bit :
        /\ Abs(lut.count) < MaxCount
        /\ pinA' = a /\ pinB' = b
        /\ lut' = irq_handler(lut, a, b)
        /\ irq' = [ran |-> TRUE, last_a |-> lut.prev \div 2, last_b |-> lut.prev % 2,
                   a |-> a, b |-> b, before |-> lut.count]
        /\ trace' = Remember(trace, Phase(a, b))
        /\ base' = Remember(base, lut'.count)
        /\ UNCHANGED <<pidVars, ctxVars, loopVars, enc>>

LutReset ==
    /\ lut' = reset_count(lut, pinA, pinB)
    /\ irq' = NoIrq
    /\ trace' = <<Phase(pinA, pinB)>>
    /\ base' = <<0>>
    /\ UNCHANGED <<pidVars, ctxVars, loopVars, pinA, pinB, enc>>

NextLUT == LutIrq \/ LutReset

SpecLUT == InitLUT /\ [][NextLUT]_vars

(***************************************************************************)
(* EncoderReader driven by edges, each handled before the next             *)
(***************************************************************************)
InitEnc ==
    /\ ParkedLoop
    /\ ParkedPID
    /\ ParkedContexts
    /\ pinA \in Bit /\ pinB \in Bit
    /\ lut = [count |-> 0, prev |-> Phase(1, 1)]
    /\ enc = EncoderReader_init(pinA, pinB, ConfigPpr, ConfigGearRatio, 0)
    /\ irq = NoIrq
    /\ trace = <<Phase(pinA, pinB)>>
    /\ base = <<0>>

\* the lines move to (a, b) and _encoder_irq runs
EncIrq ==
    \E a \in Bit, b \in Bit :
        /\ Abs(enc.count) < MaxCount
        /\ enc.total_count < 2 * MaxCount
        /\ pinA' = a /\ pinB' = b
        /\ enc' = EncoderReader_encoder_irq(enc, a, b)
        /\ irq' = [ran |-> TRUE, last_a |-> enc.last_a_state, last_b |-> enc.last_b_state,
                   a |-> a, b |-> b, before |-> enc.count]
        /\ trace' = Remember(trace, Phase(a, b))
        /\ base' = Remember(base, enc'.count)
        /\ UNCHANGED <<pidVars, ctxVars, loopVars, lut>>

EncReset ==
    /\ enc' = EncoderReader_reset(enc)
    /\ irq' = NoIrq
    /\ trace' = <<Phase(enc.last_a_state, enc.last_b_state)>>
    /\ base' = <<0>>
    /\ UNCHANGED <<pidVars, ctxVars, loopVars, pinA, pinB, lut>>

NextEnc == EncIrq \/ EncReset

SpecEnc == InitEnc /\ [][NextEnc]_vars

(***************************************************************************)
(* Either decoder driven by edges: the program that runs is chosen at the  *)
(* start, and every edge is handled before the next                        *)
(***************************************************************************)
InitEdge ==
    /\ ParkedLoop
    /\ ParkedPID
    /\ which \in {"enc", "lut"}
    /\ pending = 0 /\ isr = IsrIdle /\ thr = ThrIdle /\ rd = NoRead
    /\ pinA \in Bit /\ pinB \in Bit
    /\ lut = [count |-> 0, prev |-> Phase(pinA, pinB)]
    /\ enc = EncoderReader_init(pinA, pinB, ConfigPpr, ConfigGearRatio, 0)
    /\ irq = NoIrq
    /\ trace = <<Phase(pinA, pinB)>>
    /\ base = <<0>>

NextEdge ==
    \/ which = "lut" /\ LutIrq
    \/ which = "lut" /\ LutReset
    \/ which = "enc" /\ EncIrq
    \/ which = "enc" /\ EncReset

SpecEdge == InitEdge /\ [][NextEdge]_vars

(***************************************************************************)
(* The edge handler as an interrupt that preempts the control thread       *)
(*                                                                         *)
(* The handler starts when an edge is pending and runs to its end before   *)
(* the control thread continues; it is not reentered.  The control thread  *)
(* can be preempted between any two of its loads and stores.  count += d   *)
(* is one step of the handler: nothing can run between its load and its    *)
(* store.                                                                  *)
(***************************************************************************)
ReadOps == {"get_count", "get_angle", "get_revolutions", "read_count"}

\* the count of the program that runs
Count == IF which = "enc" THEN enc.count ELSE lut.count

\* what a read returns for a count c
ValueOf(op, c, total_ppr) ==
    CASE op = "get_angle"       -> AngleOf(c, total_ppr)
      [] op = "get_revolutions" -> RevolutionsOf(c, total_ppr)
      [] OTHER                  -> c

\* (mutant) get_angle and get_revolutions that load the count a second time
\* for the fraction of a revolution
ReadResultReloaded(op, loaded, e) ==
    CASE op = "get_angle" ->
            (loaded \div e.total_ppr) * 360000 + AngleOf(e.count % e.total_ppr, e.total_ppr)
      [] op = "get_revolutions" ->
            (loaded \div e.total_ppr) * 1000 + RevolutionsOf(e.count % e.total_ppr, e.total_ppr)
      [] OTHER -> loaded

\* the value a read returns: computed from the count it loaded
\* (get_count, read_count: the count; get_angle, get_revolutions: scaled)
ReadResult(op, loaded, e) == ValueOf(op, loaded, e.total_ppr)

InitIrq ==
    /\ ParkedPID
    /\ ParkedLoop
    /\ which \in {"enc", "lut"}
    /\ pinA \in Bit /\ pinB \in Bit
    /\ lut = [count |-> 0, prev |-> Phase(pinA, pinB)]
    /\ enc = EncoderReader_init(pinA, pinB, ConfigPpr, ConfigGearRatio, 0)
    /\ irq = NoIrq
    /\ trace = << >>
    /\ base = << >>
    /\ pending = 0
    /\ isr = IsrIdle
    /\ thr = ThrIdle
    /\ rd = NoRead

\* edges raised whose handler has not returned yet
Unserved == pending + (IF isr.pc = "idle" THEN 0 ELSE 1)

\* a line changes level (or both do) and raises the edge interrupt
Edge ==
    /\ pending < MaxPending
    /\ Abs(Count) + Unserved < MaxEdges
    /\ which = "enc" => enc.total_count + Unserved < MaxEdges
    /\ thr.pc = "loaded" => thr.n + Unserved < MaxPending
    /\ \E a \in Bit, b \in Bit :
          /\ <<a, b>> # <<pinA, pinB>>
          /\ pinA' = a /\ pinB' = b
    /\ pending' = pending + 1
    /\ UNCHANGED <<pidVars, loopVars, lut, enc, irq, trace, base, which, isr, thr, rd>>

\* the handler is entered and reads line A
\* (current_a = self.hall_a.value(); pinA.value() << 1)
IsrSampleA ==
    /\ isr.pc = "idle" /\ pending > 0
    /\ pending' = pending - 1
    /\ isr' = [pc |-> "sampleB", a |-> pinA, b |-> 0]
    /\ UNCHANGED <<pidVars, loopVars, decVars, which, thr, rd>>

\* the handler reads line B (current_b = self.hall_b.value(); | pinB.value())
IsrSampleB ==
    /\ isr.pc = "sampleB"
    /\ isr' = [isr EXCEPT !.pc = "count", !.b = pinB]
    /\ UNCHANGED <<pidVars, loopVars, decVars, which, pending, thr, rd>>

\* the handler adjusts the count (self.count += 1 / -= 1; count += lookup[idx])
IsrCount ==
    /\ isr.pc = "count"
    /\ isr' = [isr EXCEPT !.pc = "state"]
    /\ IF which = "enc"
       THEN /\ enc' = [enc EXCEPT !.count = enc.count + EncoderDelta(enc, isr.a, isr.b)]
            /\ UNCHANGED lut
       ELSE /\ lut' = [lut EXCEPT !.count = lut.count + LookupDelta(lut.prev, Phase(isr.a, isr.b))]
            /\ UNCHANGED enc
    /\ UNCHANGED <<pidVars, loopVars, pinA, pinB, irq, trace, base, which, pending, thr, rd>>

\* the handler records the line states (and total_count += 1) and returns;
\* a read in progress in the control thread now spans one more completed handler
IsrFinish ==
    /\ isr.pc = "state"
    /\ isr' = IsrIdle
    /\ IF which = "enc"
       THEN /\ enc' = [enc EXCEPT !.last_a_state = isr.a, !.last_b_state = isr.b,
                                   !.total_count = enc.total_count + 1]
            /\ UNCHANGED lut
       ELSE /\ lut' = [lut EXCEPT !.prev = Phase(isr.a, isr.b)]
            /\ UNCHANGED enc
    /\ thr' = IF thr.pc = "loaded" THEN [thr EXCEPT !.n = thr.n + 1, !.win = thr.win \cup {Count}]
                              ELSE thr
    /\ UNCHANGED <<pidVars, loopVars, pinA, pinB, irq, trace, base, which, pending, rd>>

\* the control thread runs only while no handler is running or due
ThreadRuns == isr.pc = "idle" /\ pending = 0

\* a read loads the count (LOAD_ATTR count / LOAD_GLOBAL count)
ReadLoad ==
    /\ ThreadRuns /\ thr.pc = "idle"
    /\ \E op \in ReadOps :
          /\ (op = "read_count") <=> (which = "lut")
          /\ thr' = [pc |-> "loaded", op |-> op, local |-> Count, n |-> 0, win |-> {Count}]
    /\ rd' = NoRead
    /\ UNCHANGED <<pidVars, loopVars, decVars, which, pending, isr>>

\* the read computes its result from what it loaded and returns it
ReadReturn ==
    /\ ThreadRuns /\ thr.pc = "loaded"
    /\ rd' = [valid |-> TRUE, op |-> thr.op,
               value |-> ReadResult(thr.op, thr.local, enc), win |-> thr.win,
               raised |-> "none"]
    /\ thr' = ThrIdle
    /\ UNCHANGED <<pidVars, loopVars, decVars, which, pending, isr>>

\* reset() / reset_count(): the first store, count = 0
ResetCount ==
    /\ ThreadRuns /\ thr.pc = "idle"
    /\ IF which = "enc"
       THEN enc' = [enc EXCEPT !.count = 0] /\ UNCHANGED lut
       ELSE lut' = [lut EXCEPT !.count = 0] /\ UNCHANGED enc
    /\ thr' = [ThrIdle EXCEPT !.pc = "reset"]
    /\ rd' = NoRead
    /\ UNCHANGED <<pidVars, loopVars, pinA, pinB, irq, trace, base, which, pending, isr>>

\* reset() / reset_count(): the remaining stores
ResetRest ==
    /\ ThreadRuns /\ thr.pc = "reset"
    /\ IF which = "enc"
       THEN enc' = [enc EXCEPT !.total_count = 0, !.overflow_count = 0, !.last_count = 0,
                               !.speed = 0, !.angle_speed = 0] /\ UNCHANGED lut
       ELSE lut' = [lut EXCEPT !.prev = Phase(pinA, pinB)] /\ UNCHANGED enc
    /\ thr' = ThrIdle
    /\ UNCHANGED <<pidVars, loopVars, pinA, pinB, irq, trace, base, which, pending, isr, rd>>

NextIrq ==
    \/ Edge
    \/ IsrSampleA \/ IsrSampleB \/ IsrCount \/ IsrFinish
    \/ ReadLoad \/ ReadReturn
    \/ ResetCount \/ ResetRest

SpecIrq == InitIrq /\ [][NextIrq]_vars

(***************************************************************************)
(* The position reads of EncoderReader, for any count and any geometry     *)
(***************************************************************************)
\* (ppr, gear_ratio) handed to EncoderReader.__init__: the defaults, a bare
\* 330-pulse encoder, the configured encoder behind its 30:1 gearbox
Geometries == { <<11, 1>>, <<330, 1>>, <<ConfigPpr, ConfigGearRatio>> }

\* geometries __init__ accepts as well
ZeroGeometries == { <<0, 1>>, <<ConfigPpr, 0>> }

\* counts the handler has brought the encoder to
AngleCounts == { -660, -330, -1, 0, 1, 165, 330, 660, 4950 }

\* get_angle() and get_revolutions() divide by total_ppr
ReadRaises(op, e) == op \in {"get_angle", "get_revolutions"} /\ e.total_ppr = 0

\* the encoder after the handler counted to c in one direction
EncoderAt(g, c, a, b) ==
    [EncoderReader_init(a, b, g[1], g[2], 0) EXCEPT !.count = c, !.total_count = Abs(c)]

InitAngleWith(geometries) ==
    /\ ParkedLoop
    /\ ParkedPID
    /\ ParkedContexts
    /\ pinA \in Bit /\ pinB \in Bit
    /\ lut = [count |-> 0, prev |-> Phase(1, 1)]
    /\ \E g \in geometries, c \in AngleCounts :
          /\ enc = EncoderAt(g, c, pinA, pinB)
          /\ base = <<c>>
    /\ irq = NoIrq
    /\ trace = << >>

InitAngle == InitAngleWith(Geometries)

InitGeom == InitAngleWith(Geometries \cup ZeroGeometries)

\* the lines move to (a, b) and _encoder_irq runs
AngleIrq ==
    \E a \in Bit, b \in Bit :
        /\ enc.total_count - Abs(base[1]) < MaxEdges
        /\ pinA' = a /\ pinB' = b
        /\ enc' = EncoderReader_encoder_irq(enc, a, b)
        /\ rd' = NoRead
        /\ UNCHANGED <<pidVars, loopVars, lut, irq, trace, base, which, pending, isr, thr>>

\* get_count(), get_angle() or get_revolutions() is called
AngleRead ==
    \E op \in {"get_count", "get_angle", "get_revolutions"} :
        /\ rd' = IF ReadRaises(op, enc)
                 THEN [NoRead EXCEPT !.valid = TRUE, !.op = op, !.win = {enc.count},
                                     !.raised = "ZeroDivisionError"]
                 ELSE [NoRead EXCEPT !.valid = TRUE, !.op = op, !.win = {enc.count},
                                     !.value = ReadResult(op, enc.count, enc)]
        /\ UNCHANGED <<pidVars, loopVars, decVars, which, pending, isr, thr>>

NextAngle == AngleIrq \/ AngleRead

SpecAngle == InitAngle /\ [][NextAngle]_vars

SpecGeom == InitGeom /\ [][NextAngle]_vars

(***************************************************************************)
(* The velocity reads of EncoderReader: edges, time, reads and resets      *)
(***************************************************************************)
SpeedOps == {"get_speed_rpm", "get_speed_deg_per_sec"}

InitSpeed ==
    /\ ParkedLoop
    /\ ParkedPID
    /\ ParkedContexts
    /\ pinA \in Bit /\ pinB \in Bit
    /\ lut = [count |-> 0, prev |-> Phase(1, 1)]
    /\ enc = EncoderReader_init(pinA, pinB, ConfigPpr, ConfigGearRatio, 0)
    /\ irq = NoIrq
    /\ trace = << >>
    /\ base = << >>

\* time passes
SpeedTick ==
    /\ now + 25 <= MaxSpeedTime
    /\ now' = now + 25
    /\ UNCHANGED <<pid, call, decVars, ctxVars, loopVars>>

\* the lines move to (a, b) and _encoder_irq runs
SpeedIrq ==
    \E a \in Bit, b \in Bit :
        /\ enc.total_count < MaxEdges
        /\ pinA' = a /\ pinB' = b
        /\ enc' = EncoderReader_encoder_irq(enc, a, b)
        /\ rd' = NoRead
        /\ UNCHANGED <<pidVars, loopVars, lut, irq, trace, base, which, pending, isr, thr>>

\* get_speed_rpm() or get_speed_deg_per_sec() is called
SpeedRead ==
    \E op \in SpeedOps :
        /\ enc' = EncoderReader_update_speed(enc, now)
        /\ rd' = [NoRead EXCEPT !.valid = TRUE, !.op = op, !.win = {enc.count},
                                !.value = SpeedResult(op, enc'), !.pre = <<enc, now>>]
        /\ UNCHANGED <<pidVars, loopVars, pinA, pinB, lut, irq, trace, base,
                       which, pending, isr, thr>>

\* reset() is called
SpeedReset ==
    /\ enc' = EncoderReader_reset(enc)
    /\ rd' = [NoRead EXCEPT !.valid = TRUE, !.op = "reset", !.pre = <<enc, now>>]
    /\ UNCHANGED <<pidVars, loopVars, pinA, pinB, lut, irq, trace, base,
                   which, pending, isr, thr>>

NextSpeed == SpeedTick \/ SpeedIrq \/ SpeedRead \/ SpeedReset

SpecSpeed == InitSpeed /\ [][NextSpeed]_vars

(***************************************************************************)
(* The control loops that command the motor, each under the exception      *)
(* handling of the program that runs it                                    *)
(*   step_test               PIDTuningWizard.step_test, run by             *)
(*                           pid_tuning_guide.main                         *)
(*   auto_tune_step_response PIDTuner.auto_tune_step_response              *)
(*   demonstrate_p_control   PIDLearningTool demonstrations, run by        *)
(*                           test_tools.main                               *)
(*   test_pid_control        quick_test.test_pid_control, run by           *)
(*                           quick_test.main                               *)
(*   main_control            the target-seeking loops of main_control.main *)
(***************************************************************************)
LoopKinds == {"step_test", "auto_tune_step_response", "demonstrate_p_control",
              "test_pid_control", "main_control"}

\* gains the experiments are run with: (kp, ki, kd) in hundredths
StepGains == { <<50, 0, 0>>, <<200, 0, 0>>, <<200, 40, 12>> }

\* the step target of the experiments, in degrees
StepAngle == 90

\* angles encoder.get_angle() returns during a loop, in degrees
LoopAngles == { -45, 0, 89, 200 }

\* (mutant) the band with only its lower limit
SafetyBandLowerOnly(output) == Max2(-80000, output)

\* control_output = max(-80, min(80, control_output))
SafetyBand(output) == Max2(-80000, Min2(80000, output))

\* the value the loop hands to motor.set_speed for the regulator's output
Forwarded(kind, output) ==
    IF kind \in {"step_test", "demonstrate_p_control"} THEN SafetyBand(output) ELSE output

\* the loops that record a sample each cycle
Records(kind) == kind \in {"step_test", "auto_tune_step_response"}

\* the loops that leave early once the target is reached (abs(pid.error) < 2.0)
LeavesEarly(kind, p) ==
    kind \in {"test_pid_control", "main_control"} /\ Abs(p.error) < 2

\* what the program running the loop does when an exception or a keyboard
\* interrupt leaves the loop: TRUE when its handler stops the motor
HandlerStops(kind) == kind \in {"step_test", "main_control"}

\* config.PID_CONFIGS the programs are started with: balanced and aggressive
LoopConfigs ==
    { [kp |-> 200, ki |-> 40, kd |-> 12, output_min |-> -75000, output_max |-> 75000,
       sample_time |-> 10],
      [kp |-> 300, ki |-> 60, kd |-> 18, output_min |-> -85000, output_max |-> 85000,
       sample_time |-> 10] }

\* the regulator a loop runs with: PIDController(kp, ki, kd, setpoint) with the
\* default limits, or PIDController(**config['pid']) of the configuration c
\* followed by set_setpoint
LoopPid(kind, g, c, t) ==
    IF kind \in {"step_test", "demonstrate_p_control"}
    THEN PIDController_reset(
             PIDController_init(g[1], g[2], g[3], StepAngle, -100000, 100000, 10, t), t)
    ELSE PIDController_set_setpoint(
             PIDController_init(c.kp, c.ki, c.kd, 0, c.output_min, c.output_max,
                                c.sample_time, t), StepAngle)

\* decoder counts a program can hold when a loop is set up: 0, and a quarter
\* of a turn of the output shaft (90 degrees at 9900 counts per turn)
StartCounts == { 0, 2475 }

\* the loops whose regulator outlives them: the one PIDTuner was given and
\* the one MotorPositionController holds
KeepsRegulator(kind) == kind \in {"auto_tune_step_response", "main_control"}

\* a regulator that has been in use: constructed at time 0, one accepted
\* update at time t with the shaft at 45 degrees
UsedPid(p, t) == Compute(p, t, 45)

\* enc holds the decoder as the program and the loop's setup leave it; the
\* shaft's motion during the cycles is drawn from LoopAngles
InitLoop ==
    /\ pinA = 1 /\ pinB = 1
    /\ lut = [count |-> 0, prev |-> Phase(1, 1)]
    /\ irq = NoIrq
    /\ trace = << >>
    /\ base = << >>
    /\ ParkedContexts
    /\ call = NoCall
    /\ motor = MotorDriver_init
    /\ sent = NoCommand
    /\ sample = NoSample
    /\ wizard = NoAnalysis
    /\ tuning = NoTuning
    /\ ctl = NoController
    /\ servo = NoServo
    /\ \E k \in LoopKinds, g \in StepGains, c \in LoopConfigs, n \in StartCounts,
          used \in BOOLEAN :
          /\ loop = [kind |-> k, pc |-> "setup", i |-> 0]
          /\ enc = EncoderAt(<<ConfigPpr, ConfigGearRatio>>, n, 1, 1)
          /\ IF used /\ KeepsRegulator(k)
             THEN now = 10 /\ pid = UsedPid(LoopPid(k, g, c, 0), 10)
             ELSE now = 0 /\ pid = LoopPid(k, g, c, 0)

\* the lines between the regulator's construction and the loop:
\*   step_test, demonstrate_p_control      encoder.reset(); pid.reset()
\*   test_pid_control     pid.set_setpoint(target); encoder.reset(); pid.reset()
\*   auto_tune_step_response
\*                        pid.set_setpoint(encoder.get_angle() + step_size)
\*   main_control         controller.set_target_angle(target)
LoopSetup ==
    /\ loop.pc = "setup"
    /\ loop' = [loop EXCEPT !.pc = "run"]
    /\ IF loop.kind \in {"step_test", "demonstrate_p_control"}
       THEN /\ enc' = EncoderReader_reset(enc)
            /\ pid' = PIDController_reset(pid, now)
       ELSE IF loop.kind = "test_pid_control"
       THEN /\ enc' = EncoderReader_reset(enc)
            /\ pid' = PIDController_reset(PIDController_set_setpoint(pid, StepAngle), now)
       ELSE IF loop.kind = "auto_tune_step_response"
       THEN /\ enc' = enc
            /\ pid' = PIDController_set_setpoint(
                          pid, EncoderReader_get_angle(enc) \div 1000 + StepAngle)
       ELSE /\ enc' = enc
            /\ pid' = PIDController_set_setpoint(pid, StepAngle)
    /\ UNCHANGED <<now, call, pinA, pinB, lut, irq, trace, base, ctxVars, motor,
                   sent, sample, wizard, tuning, ctl, servo>>

\* one cycle: read the angle, update the regulator, command the motor,
\* record the sample, sleep 10 ms
LoopCycle ==
    /\ loop.pc = "run" /\ loop.i < MaxCycles
    /\ ~(loop.i > 0 /\ LeavesEarly(loop.kind, pid))
    /\ \E current_angle \in LoopAngles :
          LET p   == PIDController_update(pid, now, current_angle)
              out == Forwarded(loop.kind, p.output)
          IN  /\ pid' = p
              /\ call' = Called("update", current_angle, p.output)
              /\ motor' = MotorDriver_set_speed(motor, out)
              /\ sent' = [cmd |-> "set_speed", speed |-> out]
              /\ sample' = IF Records(loop.kind)
                            THEN [valid |-> TRUE, angle |-> current_angle,
                                  error |-> p.error, output |-> out]
                            ELSE sample
    /\ loop' = [loop EXCEPT !.i = loop.i + 1]
    /\ now' = now + 10
    /\ UNCHANGED <<decVars, ctxVars, wizard, tuning, ctl, servo>>

\* the loop ends (its cycles are used up or the target is reached) and the
\* code after it stops the motor
LoopEnd ==
    /\ loop.pc = "run"
    /\ loop.i = MaxCycles \/ (loop.i > 0 /\ LeavesEarly(loop.kind, pid))
    /\ motor' = MotorDriver_stop(motor)
    /\ sent' = [cmd |-> "stop", speed |-> 0]
    /\ loop' = [loop EXCEPT !.pc = "done"]
    /\ UNCHANGED <<pidVars, decVars, ctxVars, sample, wizard, tuning, ctl, servo>>

\* an exception or KeyboardInterrupt is raised inside the loop and unwinds to
\* the handler of the program that runs it
LoopAbort ==
    /\ loop.pc = "run"
    /\ IF HandlerStops(loop.kind)
       THEN /\ motor' = MotorDriver_stop(motor)
            /\ sent' = [cmd |-> "stop", speed |-> 0]
       ELSE UNCHANGED <<motor, sent>>
    /\ loop' = [loop EXCEPT !.pc = "aborted"]
    /\ UNCHANGED <<pidVars, decVars, ctxVars, sample, wizard, tuning, ctl, servo>>

NextLoop == LoopSetup \/ LoopCycle \/ LoopEnd \/ LoopAbort

SpecLoop == InitLoop /\ [][NextLoop]_vars

(***************************************************************************)
(* Claims about PIDController, checked under SpecPID                       *)
(***************************************************************************)
\* C1: the stored output, and the value every update call returns (accepted or
\* rate-limited), lie in [output_min, output_max], after any sequence of
\* update, set_setpoint, set_tunings and reset calls.
C1_OutputWithinLimits ==
    /\ pid.output_min <= pid.output /\ pid.output <= pid.output_max
    /\ call.op = "update" =>
          (pid.output_min <= call.ret /\ call.ret <= pid.output_max)

\* an accepted update whose P + I + D sum lies above output_max
C1_Witness ==
    /\ call.op = "update" /\ ~call.within
    /\ pid.p_term + pid.i_term + pid.d_term > pid.output_max
    /\ call.ret = pid.output_max

\* C7: an update call made directly after another update call and less than
\* sample_time after the last accepted one returns the same output as that
\* call, whatever value is passed.
C7_SameWindowSameOutput ==
    (call.op = "update" /\ call.prev_op = "update" /\ call.within)
        => call.ret = call.prev_ret

\* a second update in the window, passed a value other than the one the stored
\* error was computed from
C7_Witness ==
    /\ call.op = "update" /\ call.prev_op = "update" /\ call.within
    /\ pid.setpoint - call.arg # pid.error
    /\ call.ret # 0

\* C8: immediately after set_setpoint(v) the integral accumulator is 0.
C8_SetpointClearsIntegral ==
    call.op = "set_setpoint" => pid.integral = 0

\* set_setpoint called on a controller whose accumulator was not 0
C8_Witness ==
    call.op = "set_setpoint" /\ call.before # 0 /\ pid.integral = 0

\* C13: immediately after reset() the integral accumulator, last_error, the
\* filtered derivative and the output are all 0, whatever they were before.
C13_ResetZeroesState ==
    call.op = "reset" =>
        /\ pid.integral = 0 /\ pid.last_error = 0
        /\ pid.last_derivative = 0 /\ pid.output = 0

\* reset called directly after an update that returned a nonzero output, on a
\* controller whose accumulator was not 0
C13_Witness ==
    /\ call.op = "reset"
    /\ call.prev_op = "update" /\ call.prev_ret # 0
    /\ call.before # 0
    /\ pid.integral = 0 /\ pid.output = 0

\* C14 (SpecCfg): a controller configured with sample_time <= 0 is rejected
\* at construction or guarded at update: no update call is left by a division
\* by zero, and every update that integrates the error does so with a positive
\* time step.
C14_SampleTimeGuarded ==
    call.op = "update" =>
        /\ call.raised = "none"
        /\ ~call.within => pid.sample_time > 0

\* C9: the magnitude of the integral accumulator never exceeds
\* 0.8 * output_max.
C9_IntegralBounded ==
    Abs(pid.integral) * 10 <= 8 * pid.output_max

\* two accepted updates in a row with the accumulator held at the limit by an
\* error of the same sign
C9_Witness ==
    /\ call.op = "update" /\ ~call.within
    /\ Abs(call.before) * 10 = 8 * pid.output_max
    /\ pid.integral = call.before
    /\ pid.error * pid.integral > 0

(***************************************************************************)
(* Claims about the edge handlers                                          *)
(***************************************************************************)
\* C2 (SpecLUT): with every edge handled before the next, the forward phase
\* sequence 00,01,11,10,00 changes irq_handler's count by +4 and the reverse
\* sequence 00,10,11,01,00 by -4, from any starting count.
C2_LutFourEdges ==
    /\ trace = ForwardSequence => lut.count - base[1] = 4
    /\ trace = ReverseSequence => lut.count - base[1] = -4

\* the four forward edges handled one by one, starting from a nonzero count
C2_Witness ==
    /\ trace = ForwardSequence
    /\ irq.ran
    /\ base[1] # 0
    /\ base = <<base[1], base[1] + 1, base[1] + 2, base[1] + 3, lut.count>>

\* the table indices (prev << 2) | curr of the forward and of the reverse
\* transitions
ForwardIndices == { ForwardSequence[i] * 4 + ForwardSequence[i + 1] : i \in 1..4 }
ReverseIndices == { ReverseSequence[i] * 4 + ReverseSequence[i + 1] : i \in 1..4 }
OtherIndices == (0..15) \ (ForwardIndices \cup ReverseIndices)

\* the index irq_handler formed in its last invocation
LastIndex == (irq.last_a * 2 + irq.last_b) * 4 + (irq.a * 2 + irq.b)

\* what the table holds and what an invocation of irq_handler does with it
TableDecodes ==
    /\ Len(lookup) = 16
    /\ Cardinality(ForwardIndices) = 4 /\ Cardinality(ReverseIndices) = 4
    /\ \A idx \in ForwardIndices : lookup[idx + 1] = 1
    /\ \A idx \in ReverseIndices : lookup[idx + 1] = -1
    /\ \A idx \in OtherIndices : lookup[idx + 1] = 0
    /\ irq.ran =>
          /\ LastIndex \in ForwardIndices => lut.count = irq.before + 1
          /\ LastIndex \in ReverseIndices => lut.count = irq.before - 1
          /\ LastIndex \in OtherIndices => lut.count = irq.before

\* C31 as stated (SpecLUT): the 16-entry table holds +1 for the four forward
\* transitions, -1 for the four reverse transitions and 0 for all other 12
\* index values, so a non-adjacent jump or a repeated phase handled by
\* irq_handler leaves the count unchanged.
C31_TwelveOtherIndices ==
    /\ TableDecodes
    /\ Cardinality(OtherIndices) = 12

\* C31 amended (SpecLUT): the 16-entry table holds +1 for the four forward
\* transitions, -1 for the four reverse transitions and 0 for all other 8
\* index values (the four repeated phases and the four jumps of both lines),
\* so a non-adjacent jump or a repeated phase handled by irq_handler leaves
\* the count unchanged.
C31_EightOtherIndices ==
    /\ TableDecodes
    /\ Cardinality(OtherIndices) = 8
    /\ OtherIndices = { p * 4 + p : p \in 0..3 } \cup { p * 4 + (3 - p) : p \in 0..3 }

\* irq_handler handled a jump of both lines away from a nonzero count
C31_Witness ==
    /\ irq.ran
    /\ irq.a # irq.last_a /\ irq.b # irq.last_b
    /\ irq.before # 0
    /\ lut.count = irq.before

\* C3 (SpecEnc): with every edge handled before the next, the forward phase
\* sequence 00,01,11,10,00 changes EncoderReader.count by +4 and the reverse
\* sequence by -4.
C3_EncFourEdges ==
    /\ trace = ForwardSequence => enc.count - base[1] = 4
    /\ trace = ReverseSequence => enc.count - base[1] = -4

\* C4 (SpecEnc): an _encoder_irq invocation that sees both A and B differ
\* from the recorded line states leaves count unchanged.
C4_EncJumpIgnored ==
    (irq.ran /\ irq.a # irq.last_a /\ irq.b # irq.last_b)
        => enc.count = irq.before

\* C12 (SpecEdge): every invocation of the edge handler, _encoder_irq or
\* irq_handler, changes the count by -1, 0 or +1, whatever line states were
\* recorded and whatever line states it samples.
C12_DeltaIsUnit ==
    irq.ran =>
        /\ which = "enc" => enc.count - irq.before \in {-1, 0, 1}
        /\ which = "lut" => lut.count - irq.before \in {-1, 0, 1}

\* _encoder_irq sampled both lines different from the recorded states and
\* moved the count by one
C12_Witness ==
    /\ irq.ran /\ which = "enc"
    /\ irq.a # irq.last_a /\ irq.b # irq.last_b
    /\ enc.count - irq.before \in {-1, 1}

\* C5 (SpecIrq): every value the control thread reads from the count
\* (get_count, get_angle, get_revolutions, read_count) is the value of a count
\* that stood after a completed handler invocation or reset: the count when
\* the read began or the count left by a handler that completed during it.
C5_ReadsSeeCompletedCount ==
    rd.valid =>
        \E c \in rd.win : rd.value = ValueOf(rd.op, c, enc.total_ppr)

\* a read preempted by a handler that changed the count before it returned
C5_Witness ==
    /\ rd.valid
    /\ Cardinality(rd.win) > 1
    /\ rd.value # ValueOf(rd.op, Count, enc.total_ppr)

(***************************************************************************)
(* Claims about the position reads                                         *)
(***************************************************************************)
\* C15 (SpecGeom): when ppr * gear_ratio is 0 the EncoderReader is rejected at
\* construction or get_angle() reports an error value; get_angle() never
\* performs a division by zero.
C15_ZeroPprGuarded ==
    (rd.valid /\ rd.op = "get_angle") => rd.raised = "none"

\* C16 (SpecAngle): get_angle() is count / pulses_per_revolution * 360 for
\* every count, with no wraparound (to the thousandth of a degree the angle is
\* kept to): with 330 pulses per revolution and count 330 it is 360.0, and the
\* angle of the doubled count is the doubled angle.
C16_AngleProportional ==
    (rd.valid /\ rd.op = "get_angle") =>
        /\ rd.value * enc.total_ppr <= enc.count * 360000
        /\ enc.count * 360000 < (rd.value + 1) * enc.total_ppr
        /\ (enc.total_ppr = 330 /\ enc.count = 330) => rd.value = 360000
        /\ EncoderReader_get_angle([enc EXCEPT !.count = 2 * enc.count])
              \in {2 * rd.value, 2 * rd.value + 1}

\* get_angle() read at count 330 of a 330-pulse encoder: one full turn
C16_Witness ==
    /\ rd.valid /\ rd.op = "get_angle"
    /\ enc.total_ppr = 330 /\ enc.count = 330
    /\ rd.value = 360000

\* MOTOR_PARAMS['hall_pulses_per_rev']: sensor pulses per motor revolution
HallPulsesPerRev == 11

\* C33 (SpecAngle): the encoder built from the system configuration has a
\* total pulses-per-revolution of sensor pulses times gear ratio,
\* 11 * 30 = 330, so 330 counts read as 360 degrees.
C33_ConfigTotalPpr ==
    (enc.ppr = ConfigPpr /\ enc.gear_ratio = ConfigGearRatio) =>
        /\ enc.total_ppr = HallPulsesPerRev * ConfigGearRatio
        /\ enc.total_ppr = 330
        /\ (rd.valid /\ rd.op = "get_angle" /\ enc.count = 330) => rd.value = 360000

(***************************************************************************)
(* PIDTuningWizard: the analysis of a recorded step response               *)
(* (pid_tuning_guide.py); times in ms, angles in degrees                   *)
(***************************************************************************)
\* angles a response is recorded with, around the 90 degree target: 89 and 91
\* lie within 2% of it, 0, 45, 88 and 200 do not; 45 lies between 10% and 90%
SampleAngles == {0, 45, 88, 89, 91, 200}

\* the least element of a nonempty set of indices
First(S) == CHOOSE i \in S : \A j \in S : i <= j

\* the truth value Python gives a time that is None or a float: None and 0.0
\* are false
Truthy(x) == ~x.none /\ x.time # 0

\* the (1-based) indices of the samples with angle >= target * tenths / 10
\* (ten_percent = target * 0.1, ninety_percent = target * 0.9)
Reaching(data, target, tenths) ==
    { i \in 1..Len(data) : data[i].angle * 10 >= target * tenths }

\* _calculate_rise_time(data, target)
calculate_rise_time(data, target) ==
    IF data = << >> THEN None
    ELSE LET rise_start_time ==
                 IF Reaching(data, target, 1) = {} THEN None
                 ELSE Number(data[First(Reaching(data, target, 1))].time)
         IN  IF Reaching(data, target, 9) = {} THEN None
             ELSE IF Truthy(rise_start_time)
                  THEN Number(data[First(Reaching(data, target, 9))].time
                              - rise_start_time.time)
                  ELSE None

\* the rise time of PIDTuner._analyze_step_response: the loop ends at the
\* first sample that reaches 90%, so rise_start is looked for up to that one
analyze_rise_time(data, target) ==
    LET rise_end ==
            IF Reaching(data, target, 9) = {} THEN None
            ELSE Number(data[First(Reaching(data, target, 9))].time)
        seen == { i \in Reaching(data, target, 1) :
                    Reaching(data, target, 9) = {} \/ i <= First(Reaching(data, target, 9)) }
        rise_start == IF seen = {} THEN None ELSE Number(data[First(seen)].time)
    IN  IF Truthy(rise_start) /\ Truthy(rise_end)
        THEN Number(rise_end.time - rise_start.time)
        ELSE None

\* abs(angle - target) > tolerance_band, with tolerance_band = target * 0.02
OutsideBand(angle, target) == Abs(angle - target) * 50 > target

\* for i in range(len(data)-1, 0, -1), from the (1-based) index i downwards:
\* the first sample met outside the band decides, and the scan ends above the
\* first sample
RECURSIVE SettleScan(_, _, _)
SettleScan(data, target, i) ==
    IF i < 2 THEN Number(data[Len(data)].time)
    ELSE IF OutsideBand(data[i].angle, target)
         THEN (IF i + 1 <= Len(data) THEN Number(data[i + 1].time)
                                     ELSE Number(data[Len(data)].time))
         ELSE SettleScan(data, target, i - 1)

\* _calculate_settling_time(data, target)
calculate_settling_time(data, target) ==
    IF data = << >> THEN None ELSE SettleScan(data, target, Len(data))

\* current_error_sign = 1 if pid.error > 0 else -1
ErrorSign(error) == IF error > 0 THEN 1 ELSE -1

\* oscillation_count at the end of step_test: the cycles, after the first,
\* whose current_error_sign differs from last_error_sign
oscillation_count(data) ==
    Cardinality({ i \in 2..Len(data) :
                    ErrorSign(data[i].error) # ErrorSign(data[i - 1].error) })

\* the greatest element of a nonempty set of numbers
Greatest(S) == CHOOSE x \in S : \A y \in S : y <= x

\* the recorded angles
Angles(data) == { data[i].angle : i \in 1..Len(data) }

\* (max - target) / target * 100, in thousandths of a percent
PercentOver(max, target) == ((max - target) * 100000) \div target

\* results['overshoot'] of step_test: max_angle starts at 0 and follows the
\* recorded angles
step_overshoot(data, target) ==
    LET max_angle == Greatest(Angles(data) \cup {0})
    IN  IF max_angle > target THEN PercentOver(max_angle, target) ELSE 0

\* overshoot of PIDTuner._analyze_step_response, for nonempty data
analyze_overshoot(data, target) ==
    IF target # 0 THEN PercentOver(Greatest(Angles(data)), target) ELSE 0

\* sum(values) of a list
RECURSIVE Sum(_)
Sum(values) == IF values = << >> THEN 0 ELSE Head(values) + Sum(Tail(values))

\* sum(values) / len(values), in thousandths
Mean(values) == (Sum(values) * 1000) \div Len(values)

\* the last second of a test: current_time > test_time - 1.0, in ms
SteadyWindow == 1000

\* results['steady_state_error'] of step_test, whose test_time is the
\* recorded cycles at 10 ms each: the mean of abs(pid.error) over the samples
\* of the last second, in thousandths of a degree
step_steady_state_error(data) ==
    LET test_time == Len(data) * 10
        steady_state_errors ==
            SelectSeq([i \in 1..Len(data) |->
                           IF data[i].time > test_time - SteadyWindow
                           THEN Abs(data[i].error) ELSE -1],
                      LAMBDA e : e >= 0)
    IN  IF steady_state_errors # << >> THEN Mean(steady_state_errors) ELSE 0

\* data[-n:] of a list: the last n elements, and the whole list when n = 0
LastSlice(values, n) ==
    IF n = 0 \/ n >= Len(values) THEN values
    ELSE SubSeq(values, Len(values) - n + 1, Len(values))

\* steady_state_error of PIDTuner._analyze_step_response, for nonempty data,
\* in thousandths of a degree
analyze_steady_state_error(data, target) ==
    LET steady_state_size   == Len(data) \div 10
        steady_state_values ==
            LastSlice([i \in 1..Len(data) |-> data[i].angle], steady_state_size)
    IN  Abs(target * 1000 - Mean(steady_state_values))

InitWizard ==
    /\ ParkedPID
    /\ ParkedDecoder
    /\ ParkedContexts
    /\ ParkedLoop

\* pid.error after pid.update(current_angle): setpoint - current_angle when
\* the update is accepted, the error of the last accepted update when it is
\* rate-limited (0.0 before the first accepted one)
ErrorsAfterUpdate(data, target, current_angle) ==
    { target - current_angle,
      IF data = << >> THEN 0 ELSE data[Len(data)].error }

\* a cycle of step_test appends a sample; cycles are 10 ms apart
WizardRecord ==
    /\ ~wizard.analysed
    /\ Len(wizard.data) < MaxSamples
    /\ \E current_angle \in SampleAngles :
          \E error \in ErrorsAfterUpdate(wizard.data, StepAngle, current_angle) :
              wizard' = [wizard EXCEPT
                           !.data = Append(@, [time |-> Len(wizard.data) * 10,
                                               angle |-> current_angle,
                                               error |-> error])]
    /\ UNCHANGED <<pidVars, decVars, ctxVars, motor, loop, sent, sample, tuning, ctl, servo>>

\* the results of the test are computed from the recorded samples
WizardAnalyse ==
    /\ ~wizard.analysed
    /\ wizard' = [wizard EXCEPT
                     !.analysed = TRUE,
                     !.settling_time = calculate_settling_time(wizard.data, StepAngle),
                     !.rise_time = calculate_rise_time(wizard.data, StepAngle),
                     !.oscillation_count = oscillation_count(wizard.data),
                     !.overshoot = step_overshoot(wizard.data, StepAngle),
                     !.steady_state_error = step_steady_state_error(wizard.data),
                     !.tuner_steady_state_error =
                         IF wizard.data = << >> THEN 0
                         ELSE analyze_steady_state_error(wizard.data, StepAngle),
                     !.tuner_overshoot =
                         IF wizard.data = << >> THEN 0
                         ELSE analyze_overshoot(wizard.data, StepAngle),
                     !.tuner_rise_time = analyze_rise_time(wizard.data, StepAngle)]
    /\ UNCHANGED <<pidVars, decVars, ctxVars, motor, loop, sent, sample, tuning, ctl, servo>>

\* the points of one band: 25, 20 or 10 below the first, second or third
\* threshold, 0 otherwise
Band(value, first, second, third) ==
    IF value < first THEN 25
    ELSE IF value < second THEN 20
    ELSE IF value < third THEN 10
    ELSE 0

\* the points for the rise time, in ms: each test is
\* results['rise_time'] and results['rise_time'] < limit
RiseBand(rise_time) ==
    IF Truthy(rise_time) /\ rise_time.time < 1000 THEN 25
    ELSE IF Truthy(rise_time) /\ rise_time.time < 2000 THEN 20
    ELSE IF Truthy(rise_time) /\ rise_time.time < 3000 THEN 10
    ELSE 0

\* print_results(results): the score it returns; overshoot in thousandths of
\* a percent, steady_state_error in thousandths of a degree
print_results(results) ==
    Band(results.overshoot, 10000, 20000, 30000)
    + Band(results.steady_state_error, 1000, 2000, 5000)
    + Band(results.oscillation_count, 2, 3, 5)
    + RiseBand(results.rise_time)

\* print_results is called with the results of the test
PrintResults ==
    /\ wizard.analysed /\ ~wizard.scored
    /\ wizard' = [wizard EXCEPT !.scored = TRUE, !.score = print_results(wizard)]
    /\ UNCHANGED <<pidVars, decVars, ctxVars, motor, loop, sent, sample, tuning, ctl, servo>>

NextWizard == WizardRecord \/ WizardAnalyse \/ PrintResults

SpecWizard == InitWizard /\ [][NextWizard]_vars

(***************************************************************************)
(* print_results applied to any combination of metric values               *)
(***************************************************************************)
\* values on both sides of every threshold of the four bands
Overshoots == {0, 9999, 10000, 19999, 20000, 29999, 30000, 120000}
SteadyStateErrors == {0, 999, 1000, 1999, 2000, 4999, 5000, 90000}
OscillationCounts == 0..6
RiseTimes == {None} \cup { Number(t) : t \in {0, 10, 999, 1000, 1999, 2000, 2999, 3000} }

InitScore ==
    /\ ParkedPID
    /\ ParkedDecoder
    /\ ParkedContexts
    /\ motor = MotorDriver_init
    /\ loop = [kind |-> "none", pc |-> "idle", i |-> 0]
    /\ sent = NoCommand
    /\ sample = NoSample
    /\ tuning = NoTuning
    /\ ctl = NoController
    /\ servo = NoServo
    /\ \E o \in Overshoots, e \in SteadyStateErrors, n \in OscillationCounts,
          r \in RiseTimes :
          wizard = [NoAnalysis EXCEPT !.analysed = TRUE, !.overshoot = o,
                                      !.steady_state_error = e,
                                      !.oscillation_count = n, !.rise_time = r]

SpecScore == InitScore /\ [][PrintResults]_vars

(***************************************************************************)
(* PIDTuningWizard.auto_tuning: one step per experiment it runs.  What an  *)
(* experiment measures depends on the motor: its oscillation count and its *)
(* score are drawn from sets.  Gains in ten-thousandths.                   *)
(***************************************************************************)
\* kp_values = [0.5, 1.0, 1.5, 2.0, 2.5, 3.0]
kp_values == <<5000, 10000, 15000, 20000, 25000, 30000>>

\* critical_kp = 2.5 when the sweep found none
FallbackKp == 25000

\* oscillation counts an experiment of the sweep can report
SweepOscillations == {0, 2, 3, 5}

\* scores print_results can return for a variant
VariantScores == {0, 45, 100}

\* (mutant) the sweep stopping only above three oscillations
SweepQualifiesStrict(oscillations) == oscillations > 3

\* if results['oscillation_count'] >= 3
SweepQualifies(oscillations) == oscillations >= 3

\* tuning_variants, from the Ziegler-Nichols gains of critical_kp
tuning_variants(critical_kp) ==
    LET initial_kp == (6 * critical_kp) \div 10
        initial_ki == 2 * initial_kp
        initial_kd == initial_kp \div 8
    IN  << <<initial_kp, initial_ki, initial_kd>>,
           <<(initial_kp * 8) \div 10, (initial_ki * 8) \div 10, (initial_kd * 12) \div 10>>,
           <<(initial_kp * 12) \div 10, (initial_ki * 12) \div 10, (initial_kd * 8) \div 10>>,
           <<20000, 4000, 1200>> >>

\* an experiment of the sweep: the arguments of step_test and the
\* oscillation count of its results
SweepExperiment(gains, step_angle, test_time, oscillations) ==
    [gains |-> gains, step_angle |-> step_angle, test_time |-> test_time,
     oscillation_count |-> oscillations]

\* a scored experiment: the arguments of step_test and the score
\* print_results returned for its results
ScoredExperiment(gains, step_angle, test_time, score) ==
    [gains |-> gains, step_angle |-> step_angle, test_time |-> test_time,
     score |-> score]

InitTune ==
    /\ ParkedPID
    /\ ParkedDecoder
    /\ ParkedContexts
    /\ motor = MotorDriver_init
    /\ loop = [kind |-> "none", pc |-> "idle", i |-> 0]
    /\ sent = NoCommand
    /\ sample = NoSample
    /\ wizard = NoAnalysis
    /\ tuning = [NoTuning EXCEPT !.pc = "sweep"]
    /\ ctl = NoController
    /\ servo = NoServo

\* the sweep runs step_test(kp, 0, 0, 90.0, 2.0) for the next candidate, and
\* ends when the experiment qualifies or the candidates are used up
SweepRun ==
    /\ tuning.pc = "sweep"
    /\ \E n \in SweepOscillations :
          LET kp    == kp_values[tuning.next]
              hit   == SweepQualifies(n)
              last  == tuning.next = Len(kp_values)
          IN  tuning' = [tuning EXCEPT
                  !.sweep = Append(@, SweepExperiment(<<kp, 0, 0>>, 90, 2000, n)),
                  !.next = IF hit \/ last THEN 1 ELSE tuning.next + 1,
                  !.critical_kp = IF hit THEN kp ELSE IF last THEN FallbackKp ELSE 0,
                  !.pc = IF hit \/ last THEN "variants" ELSE "sweep"]
    /\ UNCHANGED <<pidVars, decVars, ctxVars, motor, loop, sent, sample, wizard, ctl, servo>>

\* the next variant is run with step_test(kp, ki, kd, 90.0, 4.0) and scored
VariantRun ==
    /\ tuning.pc = "variants"
    /\ \E score \in VariantScores :
          LET variant == tuning_variants(tuning.critical_kp)[tuning.next]
              better  == score > tuning.best_score
              last    == tuning.next = Len(tuning_variants(tuning.critical_kp))
          IN  tuning' = [tuning EXCEPT
                  !.variants = Append(@, ScoredExperiment(variant, 90, 4000, score)),
                  !.best_score = IF better THEN score ELSE @,
                  !.best_params = IF better THEN variant ELSE @,
                  !.next = IF last THEN 1 ELSE tuning.next + 1,
                  !.pc = IF last THEN "final" ELSE "variants"]
    /\ UNCHANGED <<pidVars, decVars, ctxVars, motor, loop, sent, sample, wizard, ctl, servo>>

\* the confirmatory run, step_test(best kp, ki, kd, 180.0, 5.0), and
\* return best_params
FinalRun ==
    /\ tuning.pc = "final"
    /\ \E score \in VariantScores :
          tuning' = [tuning EXCEPT
              !.final = <<ScoredExperiment(tuning.best_params, 180, 5000, score)>>,
              !.pc = "done"]
    /\ UNCHANGED <<pidVars, decVars, ctxVars, motor, loop, sent, sample, wizard, ctl, servo>>

NextTune == SweepRun \/ VariantRun \/ FinalRun

SpecTune == InitTune /\ [][NextTune]_vars

(***************************************************************************)
(* Claims about auto_tuning, checked under SpecTune                        *)
(***************************************************************************)
\* C25: the gains auto_tuning returns are those of the highest-scoring of the
\* four tested variants, always one of the tested variants whatever their
\* scores, and the confirmatory run at the larger step uses those gains.
C25_BestVariantReturned ==
    tuning.pc = "done" =>
        /\ \E i \in 1..Len(tuning.variants) :
              /\ tuning.best_params = tuning.variants[i].gains
              /\ \A j \in 1..Len(tuning.variants) :
                    tuning.variants[j].score <= tuning.variants[i].score
        /\ tuning.final[1].gains = tuning.best_params
        /\ tuning.final[1].step_angle > tuning.variants[1].step_angle

\* C26: the sweep runs the candidates 0.5, 1.0, ..., 3.0 in ascending order
\* with ki = kd = 0; the first whose experiment reports three oscillations or
\* more is the critical gain and no later candidate is run; when none does,
\* the critical gain is 2.5.
C26_SweepStopsAtFirst ==
    /\ Len(tuning.sweep) <= Len(kp_values)
    /\ \A i \in 1..Len(tuning.sweep) :
          /\ tuning.sweep[i].gains = <<kp_values[i], 0, 0>>
          /\ i < Len(tuning.sweep) => tuning.sweep[i].oscillation_count < 3
    /\ tuning.pc = "sweep" =>
          \A i \in 1..Len(tuning.sweep) : tuning.sweep[i].oscillation_count < 3
    /\ tuning.pc \in {"variants", "final", "done"} =>
          LET last == tuning.sweep[Len(tuning.sweep)]
          IN  IF last.oscillation_count >= 3
              THEN tuning.critical_kp = last.gains[1]
              ELSE /\ Len(tuning.sweep) = Len(kp_values)
                   /\ tuning.critical_kp = 25000

\* the third candidate is the first to report three oscillations: it is the
\* critical gain and the variants are run next
C26_Witness ==
    /\ tuning.pc = "variants"
    /\ Len(tuning.sweep) = 3
    /\ tuning.sweep[3].oscillation_count = 3
    /\ tuning.critical_kp = 15000

(***************************************************************************)
(* Claims about the analysis, checked under SpecWizard                     *)
(***************************************************************************)
\* the (1-based) indices from which every sample up to the last lies in the band
SettledFrom(data, target) ==
    { j \in 1..Len(data) :
        \A k \in j..Len(data) : ~OutsideBand(data[k].angle, target) }

\* C19: for every recorded sample sequence that ends within the band, the
\* settling time is the time of the earliest sample from which every sample up
\* to the last stays within 2% of the target.
C19_SettlingIsEarliest ==
    (wizard.analysed /\ SettledFrom(wizard.data, StepAngle) # {}) =>
        \E j \in SettledFrom(wizard.data, StepAngle) :
            /\ \A k \in SettledFrom(wizard.data, StepAngle) : j <= k
            /\ wizard.settling_time = Number(wizard.data[j].time)

\* C20: when the last recorded sample lies outside the 2% band, the settling
\* time is None and never a number.
C20_UnsettledIsNone ==
    ( /\ wizard.analysed
      /\ wizard.data # << >>
      /\ OutsideBand(wizard.data[Len(wizard.data)].angle, StepAngle) )
        => wizard.settling_time = None

\* C21: the rise time computed from a recorded sequence, by
\* _calculate_rise_time and by _analyze_step_response, is the time between the
\* first sample reaching 10% of the target and the first sample reaching 90%
\* of it, and it is None only when one of the two is never reached.
C21_RiseTimeTenToNinety ==
    wizard.analysed =>
        LET s10 == Reaching(wizard.data, StepAngle, 1)
            s90 == Reaching(wizard.data, StepAngle, 9)
            expected == IF s10 = {} \/ s90 = {} THEN None
                        ELSE Number(wizard.data[First(s90)].time
                                    - wizard.data[First(s10)].time)
        IN  /\ wizard.rise_time = expected
            /\ wizard.tuner_rise_time = expected

\* the recorded errors that are not 0, in order
NonzeroErrors(data) ==
    SelectSeq([i \in 1..Len(data) |-> data[i].error], LAMBDA e : e # 0)

\* the places where the error changes sign: a positive error followed, as
\* next error other than 0, by a negative one, or the reverse
SignChanges(data) ==
    { i \in 2..Len(NonzeroErrors(data)) :
        (NonzeroErrors(data)[i] > 0) # (NonzeroErrors(data)[i - 1] > 0) }

\* C22: the oscillation_count of step_test is the number of sign changes of
\* the error between consecutive recorded samples; a run whose error never
\* changes sign yields 0.
C22_OscillationCountsSignChanges ==
    wizard.analysed => wizard.oscillation_count = Cardinality(SignChanges(wizard.data))

\* C23: the overshoot computed for an experiment, by step_test and by
\* _analyze_step_response, is (max_sample - target) / target * 100 when the
\* greatest sample exceeds the target and 0 otherwise.
C23_OvershootOrZero ==
    (wizard.analysed /\ wizard.data # << >>) =>
        LET max_sample == Greatest(Angles(wizard.data))
            expected == IF max_sample > StepAngle
                        THEN ((max_sample - StepAngle) * 100000) \div StepAngle
                        ELSE 0
        IN  /\ wizard.overshoot = expected
            /\ wizard.tuner_overshoot = expected

\* the final tenth of the recorded angles by count (the last sample at least)
FinalTenth(data) ==
    LET n == Max2(1, Len(data) \div 10)
    IN  SubSeq([i \in 1..Len(data) |-> data[i].angle], Len(data) - n + 1, Len(data))

\* C24: the steady_state_error reported for an experiment, by step_test and
\* by _analyze_step_response, is |target - steady_state_value|, where
\* steady_state_value is the mean of the final 10% of the recorded samples by
\* count, for every length of the sequence.
C24_SteadyStateError ==
    (wizard.analysed /\ wizard.data # << >>) =>
        LET expected == Abs(StepAngle * 1000 - Mean(FinalTenth(wizard.data)))
        IN  /\ wizard.steady_state_error = expected
            /\ wizard.tuner_steady_state_error = expected

\* C27 (SpecScore): the score print_results returns lies in 0..100 and is the
\* sum of four bands awarding 25/20/10/0 points: overshoot < 10 / < 20 / < 30 %,
\* steady-state error < 1 / < 2 / < 5 degrees, oscillation count <= 1 / <= 2 /
\* <= 4, rise time < 1 / < 2 / < 3 s, a rise time of None earning 0; for every
\* combination of metric values.
C27_ScoreIsSumOfBands ==
    wizard.scored =>
        /\ wizard.score \in 0..100
        /\ wizard.score =
              (IF wizard.overshoot < 10000 THEN 25
               ELSE IF wizard.overshoot < 20000 THEN 20
               ELSE IF wizard.overshoot < 30000 THEN 10 ELSE 0)
              + (IF wizard.steady_state_error < 1000 THEN 25
                 ELSE IF wizard.steady_state_error < 2000 THEN 20
                 ELSE IF wizard.steady_state_error < 5000 THEN 10 ELSE 0)
              + (IF wizard.oscillation_count <= 1 THEN 25
                 ELSE IF wizard.oscillation_count <= 2 THEN 20
                 ELSE IF wizard.oscillation_count <= 4 THEN 10 ELSE 0)
              + (IF wizard.rise_time.none THEN 0
                 ELSE IF wizard.rise_time.time < 1000 THEN 25
                 ELSE IF wizard.rise_time.time < 2000 THEN 20
                 ELSE IF wizard.rise_time.time < 3000 THEN 10 ELSE 0)

(***************************************************************************)
(* Claims about the velocity reads, checked under SpecSpeed                *)
(***************************************************************************)
\* C17: reset() sets count to 0 and resets the velocity baseline, the
\* memoized count to 0 and the memoized timestamp to the time of the reset, so
\* that the next velocity is computed from the ticks and the time since the
\* reset only.
C17_ResetRestartsBaseline ==
    (rd.valid /\ rd.op = "reset") =>
        /\ enc.count = 0
        /\ enc.last_count = 0
        /\ enc.last_time = rd.pre[2]

\* C18: a velocity read made less than 50 ms after the memoized sample
\* returns the velocity computed before and leaves the memoized count and
\* timestamp unchanged; a read made 50 ms or more after it computes the
\* velocity from the count difference over the time difference, returns it, and
\* memoizes the present count and time.
C18_SpeedWindow ==
    (rd.valid /\ rd.op \in SpeedOps) =>
        LET e  == rd.pre[1]
            t  == rd.pre[2]
            dt == t - e.last_time
            dc == e.count - e.last_count
        IN  IF dt < 50
            THEN /\ rd.value = SpeedResult(rd.op, e)
                 /\ enc.last_count = e.last_count /\ enc.last_time = e.last_time
            ELSE /\ enc.speed * (e.total_ppr * dt) <= dc * 60000000
                 /\ dc * 60000000 < (enc.speed + 1) * (e.total_ppr * dt)
                 /\ rd.value = (IF rd.op = "get_speed_rpm" THEN enc.speed ELSE enc.speed * 6)
                 /\ enc.last_count = e.count /\ enc.last_time = t

\* a read made exactly 50 ms after the memoized sample, the count having
\* moved: a new velocity is returned and the baseline moves to the present
C18_Witness ==
    /\ rd.valid /\ rd.op = "get_speed_rpm"
    /\ rd.pre[2] - rd.pre[1].last_time = 50
    /\ rd.pre[1].count # rd.pre[1].last_count
    /\ rd.value # 0 /\ rd.value # rd.pre[1].speed
    /\ enc.last_time = rd.pre[2]

(***************************************************************************)
(* Every control-thread operation of either decoder, with the edges        *)
(* handled in between                                                      *)
(***************************************************************************)
InitShared ==
    /\ ParkedLoop
    /\ ParkedPID
    /\ which \in {"enc", "lut"}
    /\ pending = 0 /\ isr = IsrIdle /\ thr = ThrIdle /\ rd = NoRead
    /\ pinA \in Bit /\ pinB \in Bit
    /\ lut = [count |-> 0, prev |-> Phase(pinA, pinB)]
    /\ enc = EncoderReader_init(pinA, pinB, ConfigPpr, ConfigGearRatio, 0)
    /\ irq = NoIrq
    /\ trace = << >>
    /\ base = <<0>>

\* the lines move to (a, b) and irq_handler runs
CountIrq ==
    \E a \in Bit, b \in Bit :
        /\ Abs(lut.count) < MaxEdges
        /\ pinA' = a /\ pinB' = b
        /\ lut' = irq_handler(lut, a, b)
        /\ rd' = NoRead
        /\ UNCHANGED <<pidVars, loopVars, enc, irq, trace, base, which, pending, isr, thr>>

\* read_count() is called
CountRead ==
    /\ rd' = [NoRead EXCEPT !.valid = TRUE, !.op = "read_count", !.win = {lut.count},
                            !.value = lut.count, !.pre = <<lut, now>>]
    /\ UNCHANGED <<pidVars, loopVars, decVars, which, pending, isr, thr>>

\* reset_count() is called
CountReset ==
    /\ lut' = reset_count(lut, pinA, pinB)
    /\ rd' = [NoRead EXCEPT !.valid = TRUE, !.op = "reset_count", !.pre = <<lut, now>>]
    /\ UNCHANGED <<pidVars, loopVars, pinA, pinB, enc, irq, trace, base,
                   which, pending, isr, thr>>

NextShared ==
    \/ SpeedTick
    \/ which = "enc" /\ SpeedIrq
    \/ which = "enc" /\ SpeedRead
    \/ which = "enc" /\ SpeedReset
    \/ which = "enc" /\ AngleRead
    \/ which = "lut" /\ CountIrq
    \/ which = "lut" /\ CountRead
    \/ which = "lut" /\ CountReset

SpecShared == InitShared /\ [][NextShared]_vars

\* the control-thread operations other than the resets
ThreadReads == {"get_count", "get_angle", "get_revolutions", "get_speed_rpm",
                "get_speed_deg_per_sec", "read_count"}

\* C34 (SpecShared): the count and the recorded last line states are written
\* only by the edge handler and by reset: get_count, get_angle,
\* get_revolutions, update_speed with the speed getters, and read_count leave
\* them unchanged.
C34_ReadsLeaveCountAndPhase ==
    [][(rd'.valid /\ rd'.op \in ThreadReads /\ rd' # rd)
          => /\ enc'.count = enc.count
             /\ enc'.last_a_state = enc.last_a_state
             /\ enc'.last_b_state = enc.last_b_state
             /\ lut' = lut]_vars

\* a speed getter whose update_speed recomputed the velocity and moved the
\* baseline to a nonzero count, which it left in place
C34_Witness ==
    /\ rd.valid /\ rd.op = "get_speed_rpm"
    /\ rd.pre[1].last_count # rd.pre[1].count
    /\ enc.last_count = enc.count /\ enc.last_time = now
    /\ enc.count = rd.pre[1].count /\ enc.count # 0
    /\ enc.last_a_state = rd.pre[1].last_a_state
    /\ enc.last_b_state = rd.pre[1].last_b_state

(***************************************************************************)
(* update_speed preempted by the edge handler                              *)
(*                                                                         *)
(* update_speed loads the count twice: for count_diff (line 106) and for   *)
(* the new baseline (line 115).  The handler can run between the two.      *)
(* trace holds the count differences the recomputations used, base the     *)
(* baseline the first of them started from.                                *)
(***************************************************************************)
InitAccount ==
    /\ ParkedPID
    /\ ParkedLoop
    /\ which = "enc"
    /\ pinA \in Bit /\ pinB \in Bit
    /\ lut = [count |-> 0, prev |-> Phase(1, 1)]
    /\ enc = EncoderReader_init(pinA, pinB, ConfigPpr, ConfigGearRatio, 0)
    /\ irq = NoIrq
    /\ trace = << >>
    /\ base = <<0>>
    /\ pending = 0
    /\ isr = IsrIdle
    /\ thr = ThrIdle
    /\ rd = NoRead

\* time passes while the control thread is between two calls
AccountTick ==
    /\ thr.pc = "idle"
    /\ now + 25 <= MaxSpeedTime
    /\ now' = now + 25
    /\ UNCHANGED <<pid, call, decVars, ctxVars, loopVars>>

\* update_speed, lines 102-106: the window has passed and
\* count_diff = self.count - self.last_count is computed
UpdateSpeedDiff ==
    /\ ThreadRuns /\ thr.pc = "idle"
    /\ SpeedDue(enc, now)
    /\ thr' = [pc |-> "diffed", op |-> "update_speed",
               local |-> enc.count - enc.last_count, n |-> now, win |-> {enc.count}]
    /\ rd' = NoRead
    /\ UNCHANGED <<pidVars, loopVars, decVars, which, pending, isr>>

\* update_speed, lines 108-116: the velocity is stored from count_diff, then
\* self.last_count = self.count and self.last_time = current_time
UpdateSpeedStore ==
    /\ ThreadRuns /\ thr.pc = "diffed"
    /\ LET speed == RpmOf(thr.local, enc.total_ppr, ticks_diff(thr.n, enc.last_time))
       IN  enc' = [enc EXCEPT !.speed = speed, !.angle_speed = speed * 6,
                              !.last_count = enc.count, !.last_time = thr.n]
    /\ trace' = Append(trace, thr.local)
    /\ thr' = ThrIdle
    /\ UNCHANGED <<pidVars, loopVars, pinA, pinB, lut, irq, base, which, pending, isr, rd>>

NextAccount ==
    \/ AccountTick
    \/ Edge
    \/ IsrSampleA \/ IsrSampleB \/ IsrCount \/ IsrFinish
    \/ UpdateSpeedDiff \/ UpdateSpeedStore

SpecAccount == InitAccount /\ [][NextAccount]_vars

\* C35 (SpecAccount): with edge interrupts able to fire at any point inside
\* update_speed, no tick is lost from the velocity accounting: the count
\* differences used by the successive recomputations add up to the change of
\* the count between the first and the last memoized baseline.
C35_NoTickLost ==
    thr.pc = "idle" => Sum(trace) = enc.last_count - base[1]

(***************************************************************************)
(* Claims about the control loops, checked under SpecLoop                  *)
(***************************************************************************)
\* C6: every control loop that commands the motor has issued motor.stop()
\* after its last motor command once it is over, when it completes normally and
\* when an exception or keyboard interrupt aborts it: the driver then holds
\* the motor braked.
C6_LoopsStopMotor ==
    loop.pc \in {"done", "aborted"} => Braked(motor)

\* C10: during step_test every value passed to motor.set_speed lies in
\* [-80, 80], and the output recorded in the sample is that value.
C10_StepTestSafetyBand ==
    (loop.kind = "step_test" /\ sent.cmd = "set_speed")
        => /\ -80000 <= sent.speed /\ sent.speed <= 80000
           /\ sample.valid /\ sample.output = sent.speed

\* a step_test cycle in which the regulator's output lies above the band
C10_Witness ==
    /\ loop.kind = "step_test" /\ sent.cmd = "set_speed"
    /\ pid.output > 80000
    /\ sent.speed = 80000 /\ sample.output = 80000
    /\ motor.speed = 80000

\* C11: during the step experiment of auto_tune_step_response every value
\* passed to motor.set_speed lies in [-80, 80].
C11_AutoTuneSafetyBand ==
    (loop.kind = "auto_tune_step_response" /\ sent.cmd = "set_speed")
        => (-80000 <= sent.speed /\ sent.speed <= 80000)

\* C32 (SpecPID): a rate-limited update, one made before sample_time has
\* elapsed since the last accepted update, changes no controller state: error,
\* accumulator, last_error, filtered derivative, output and the last-update
\* timestamp (and every other field) are as before, and the value returned is
\* the stored output.
C32_RateLimitedChangesNothing ==
    [][(call'.op = "update" /\ call'.within /\ now' = now)
          => (pid' = pid /\ call'.ret = pid.output)]_vars

\* a rate-limited update whose measurement differs from the one the stored
\* error was computed from
C32_Witness ==
    /\ call.op = "update" /\ call.within
    /\ call.prev_op = "update"
    /\ pid.output # 0
    /\ pid.error # pid.setpoint - call.arg
    /\ call.ret = pid.output

\* C39 (SpecPID): in every reachable state the record get_debug_info()
\* returns is self-consistent: its output is
\* clamp(p_term + i_term + d_term, output_min, output_max) and its error and
\* terms are those of the computation that produced the output, after
\* reset() and after rate-limited updates too.
C39_DebugInfoConsistent ==
    LET total == pid.p_term + pid.i_term + pid.d_term
    IN  pid.output = IF total > pid.output_max THEN pid.output_max
                     ELSE IF total < pid.output_min THEN pid.output_min
                     ELSE total

\* C29: after an accepted update, error = setpoint - measured and
\* output = clamp(kp*error + ki*integral + kd*filtered_derivative,
\* output_min, output_max); with kp = 2, ki = kd = 0, setpoint 90 and
\* measured 0 the unclamped value is 180 and the output is
\* min(180, output_max).
C29_OutputIsClampedSum ==
    (call.op = "update" /\ ~call.within /\ call.raised = "none") =>
        LET unclamped == pid.kp * pid.error * 10
                          + (pid.ki * pid.integral) \div 100
                          + pid.kd * pid.last_derivative
        IN  /\ pid.error = pid.setpoint - call.arg
            /\ unclamped = pid.p_term + pid.i_term + pid.d_term
            /\ pid.output = IF unclamped > pid.output_max THEN pid.output_max
                            ELSE IF unclamped < pid.output_min THEN pid.output_min
                            ELSE unclamped
            /\ call.ret = pid.output
            /\ (/\ pid.kp = 200 /\ pid.ki = 0 /\ pid.kd = 0
                /\ pid.setpoint = 90 /\ call.arg = 0)
                   => /\ unclamped = 180000
                      /\ pid.output = Min2(180000, pid.output_max)

\* the scenario in step_test: kp = 2, ki = kd = 0, target 90, shaft at 0, the
\* limits at their default +/-100
C29_Witness ==
    /\ loop.kind = "step_test"
    /\ call.op = "update" /\ ~call.within /\ call.raised = "none"
    /\ pid.kp = 200 /\ pid.ki = 0 /\ pid.kd = 0
    /\ pid.setpoint = 90 /\ call.arg = 0
    /\ pid.p_term = 180000 /\ pid.output_max = 100000 /\ pid.output = 100000

\* C30: in step_test and in auto_tune_step_response the decoder count and
\* the regulator's dynamic state (last error, accumulator, filtered
\* derivative, output) are reset before the first motor command of the
\* experiment.
C30_ResetBeforeFirstCommand ==
    (/\ loop.kind \in {"step_test", "auto_tune_step_response"}
     /\ loop.pc = "run" /\ loop.i = 0)
        => /\ enc.count = 0
           /\ pid.last_error = 0 /\ pid.integral = 0
           /\ pid.last_derivative = 0 /\ pid.output = 0

\* C36: every sample recorded by step_test is self-consistent: its error is
\* the setpoint minus the measured angle of the same sample, in every cycle,
\* those in which the regulator's update was rate-limited included.
C36_SampleErrorMatchesAngle ==
    (loop.kind = "step_test" /\ sample.valid)
        => sample.error = pid.setpoint - sample.angle

(***************************************************************************)
(* The motor driver on its own: set_speed, stop and coast called in any    *)
(* order, as the control loops and the test programs call them             *)
(***************************************************************************)
\* speeds passed to set_speed, in thousandths of a percent: every 2.5 % from
\* -150 % to 150 %, and speeds with a fractional part
MotorSpeeds == { k * 2500 : k \in -60..60 } \cup
               { -100001, -99999, -33333, -999, -1, 1, 2, 999, 12345, 33333, 99999, 100001 }

InitMotor ==
    /\ ParkedPID
    /\ ParkedDecoder
    /\ ParkedContexts
    /\ motor = MotorDriver_init
    /\ loop = [kind |-> "none", pc |-> "idle", i |-> 0]
    /\ sent = NoCommand
    /\ sample = NoSample
    /\ wizard = NoAnalysis
    /\ tuning = NoTuning
    /\ ctl = NoController
    /\ servo = NoServo

\* motor.set_speed(speed)
MotorSetSpeed ==
    /\ \E speed \in MotorSpeeds :
          /\ motor' = MotorDriver_set_speed(motor, speed)
          /\ sent' = [cmd |-> "set_speed", speed |-> speed]
    /\ UNCHANGED <<pidVars, decVars, ctxVars, loop, sample, wizard, tuning, ctl, servo>>

\* motor.stop()
MotorStop ==
    /\ motor' = MotorDriver_stop(motor)
    /\ sent' = [cmd |-> "stop", speed |-> 0]
    /\ UNCHANGED <<pidVars, decVars, ctxVars, loop, sample, wizard, tuning, ctl, servo>>

\* motor.coast()
MotorCoast ==
    /\ motor' = MotorDriver_coast(motor)
    /\ sent' = [cmd |-> "coast", speed |-> 0]
    /\ UNCHANGED <<pidVars, decVars, ctxVars, loop, sample, wizard, tuning, ctl, servo>>

NextMotor == MotorSetSpeed \/ MotorStop \/ MotorCoast

SpecMotor == InitMotor /\ [][NextMotor]_vars

\* C28: set_speed(s) clamps s to [-100, 100] and stores it as the current
\* speed; the duty is floor(|speed| * 65535 / 100), within 0..65535, and the
\* direction pins are (1,0) for a positive and (0,1) for a negative speed; a
\* zero speed performs stop(), the active brake, whose pins and duty differ
\* from those of coast().  (d = floor(|s| * 65535 / 100000) is stated as
\* d * 20000 <= |s| * 13107 < (d + 1) * 20000.)
C28_SetSpeedMapsDutyAndDirection ==
    /\ sent.cmd = "set_speed" =>
          LET s == IF sent.speed > 100000 THEN 100000
                   ELSE IF sent.speed < -100000 THEN -100000 ELSE sent.speed
          IN  /\ s # 0 =>
                    /\ motor.speed = s
                    /\ motor.duty \in 0..65535
                    /\ motor.duty * 20000 <= Abs(s) * 13107
                    /\ Abs(s) * 13107 < (motor.duty + 1) * 20000
                    /\ s > 0 => (motor.in1 = 1 /\ motor.in2 = 0)
                    /\ s < 0 => (motor.in1 = 0 /\ motor.in2 = 1)
              /\ s = 0 =>
                    /\ motor = MotorDriver_stop(motor)
                    /\ motor.speed = 0 /\ motor.in1 = 1 /\ motor.in2 = 1
                    /\ motor.duty = 65535
    /\ sent.cmd = "stop" =>
          /\ motor.in1 = 1 /\ motor.in2 = 1 /\ motor.duty = 65535 /\ motor.speed = 0
          /\ MotorDriver_coast(motor).in1 # motor.in1
          /\ MotorDriver_coast(motor).in2 # motor.in2
          /\ MotorDriver_coast(motor).duty # motor.duty
    /\ sent.cmd = "coast" =>
          /\ motor.in1 = 0 /\ motor.in2 = 0 /\ motor.duty = 0 /\ motor.speed = 0

\* a reverse command beyond the range, clamped to full reverse
C28_Witness ==
    /\ sent.cmd = "set_speed" /\ sent.speed = -120000
    /\ motor.speed = -100000 /\ motor.duty = 65535
    /\ motor.in1 = 0 /\ motor.in2 = 1

(***************************************************************************)
(* MotorAngleController (main_control.py): its methods called in any order *)
(***************************************************************************)
\* speeds handed to manual_control, in thousandths of a percent
ManualSpeeds == { -30000, 50000 }

\* targets handed to set_target_angle, in degrees
TargetAngles == { 0, 90 }

\* angles encoder.get_angle() returns to update(), in degrees
ControllerAngles == { 0, 45 }

\* self.control_loop_time = 0.01, in ms
ControlLoopTime == 10

InitCtl ==
    /\ ParkedDecoder
    /\ ParkedContexts
    /\ now = 0
    /\ call = NoCall
    /\ pid = PIDController_init(200, 40, 12, 0, -75000, 75000, 10, 0)
    /\ motor = MotorDriver_init
    /\ loop = [kind |-> "none", pc |-> "idle", i |-> 0]
    /\ sent = NoCommand
    /\ sample = NoSample
    /\ wizard = NoAnalysis
    /\ tuning = NoTuning
    /\ ctl = NoController
    /\ servo = NoServo

\* time passes between two calls
CtlTick ==
    /\ now + 10 <= MaxTime
    /\ now' = now + 10
    /\ UNCHANGED <<pid, call, decVars, ctxVars, loopVars>>

\* start_control()
CtlStart ==
    /\ ctl' = IF ctl.is_running
              THEN [ctl EXCEPT !.op = "start_control"]
              ELSE [ctl EXCEPT !.is_running = TRUE, !.current_mode = "AUTO",
                               !.op = "start_control"]
    /\ UNCHANGED <<pidVars, decVars, ctxVars, motor, loop, sent, sample, wizard,
                   tuning, servo>>

\* stop_control()
CtlStop ==
    /\ ctl' = [ctl EXCEPT !.is_running = FALSE, !.current_mode = "IDLE",
                          !.op = "stop_control"]
    /\ motor' = MotorDriver_stop(motor)
    /\ sent' = [cmd |-> "stop", speed |-> 0]
    /\ UNCHANGED <<pidVars, decVars, ctxVars, loop, sample, wizard, tuning, servo>>

\* manual_control(speed)
CtlManual ==
    /\ \E speed \in ManualSpeeds :
          /\ motor' = MotorDriver_set_speed(motor, speed)
          /\ sent' = [cmd |-> "set_speed", speed |-> speed]
    /\ ctl' = [ctl EXCEPT !.current_mode = "MANUAL", !.op = "manual_control"]
    /\ UNCHANGED <<pidVars, decVars, ctxVars, loop, sample, wizard, tuning, servo>>

\* set_target_angle(angle)
CtlSetTarget ==
    /\ \E angle \in TargetAngles :
          /\ ctl' = [ctl EXCEPT !.target_angle = angle, !.op = "set_target_angle"]
          /\ pid' = PIDController_set_setpoint(pid, angle)
    /\ UNCHANGED <<now, call, decVars, ctxVars, motor, loop, sent, sample, wizard,
                   tuning, servo>>

\* (mutant) an update that looks at is_running only
UpdateReturnsEarlyUnlessRunning(c) == ~c.is_running

\* update(): if not self.is_running or self.current_mode != "AUTO": return
UpdateReturnsEarly(c) == ~c.is_running \/ c.current_mode # "AUTO"

\* update(): the control period has not passed
UpdateTooSoon(c, t) == ticks_diff(t, c.last_update_time) < ControlLoopTime

\* update()
CtlUpdate ==
    IF UpdateReturnsEarly(ctl) \/ UpdateTooSoon(ctl, now)
    THEN /\ ctl' = [ctl EXCEPT !.op = "update"]
         /\ UNCHANGED <<pidVars, decVars, ctxVars, motor, loop, sent, sample, wizard,
                        tuning, servo>>
    ELSE /\ \E current_angle \in ControllerAngles :
               LET p == PIDController_update(pid, now, current_angle)
               IN  /\ pid' = p
                   /\ call' = Called("update", current_angle, p.output)
                   /\ motor' = MotorDriver_set_speed(motor, p.output)
                   /\ sent' = [cmd |-> "set_speed", speed |-> p.output]
         /\ ctl' = [ctl EXCEPT !.last_update_time = now, !.op = "update"]
         /\ UNCHANGED <<now, decVars, ctxVars, loop, sample, wizard, tuning, servo>>

NextCtl == CtlTick \/ CtlStart \/ CtlStop \/ CtlManual \/ CtlSetTarget \/ CtlUpdate

SpecCtl == InitCtl /\ [][NextCtl]_vars

\* C37 (SpecCtl): after start_control() returns the controller is in AUTO
\* mode with is_running true, from any prior state and after any sequence of
\* start_control, stop_control and manual_control calls, so that update()
\* drives the motor from the regulator.
C37_StartMeansAuto ==
    ctl.op = "start_control" => (ctl.is_running /\ ctl.current_mode = "AUTO")

\* C38 (SpecCtl): update() sends a command to the motor only when is_running
\* is true and the mode is AUTO; in IDLE or MANUAL mode (or when not running)
\* an update() call leaves the motor command, the regulator and the
\* controller's timestamp unchanged.
C38_UpdateOnlyInAuto ==
    [][(ctl'.op = "update" /\ now' = now
           /\ ~(ctl.is_running /\ ctl.current_mode = "AUTO"))
          => /\ motor' = motor /\ sent' = sent
             /\ pid' = pid
             /\ ctl'.last_update_time = ctl.last_update_time
             /\ ctl'.is_running = ctl.is_running
             /\ ctl'.current_mode = ctl.current_mode]_vars

\* update() called in MANUAL mode while running, a control period after the
\* last accepted update: the manual command stands
C38_Witness ==
    /\ ctl.op = "update"
    /\ ctl.is_running /\ ctl.current_mode = "MANUAL"
    /\ now - ctl.last_update_time >= ControlLoopTime
    /\ sent.cmd = "set_speed" /\ sent.speed = 50000 /\ motor.speed = 50000
    /\ pid.setpoint = 90

(***************************************************************************)
(* Servo (common/servo.py): attach, deinit and write_pulse_us called in    *)
(* any order.  PWM objects are numbered as they are constructed;           *)
(* servo.live holds those constructed and not yet deinit()ed.              *)
(***************************************************************************)
MaxPwm == 4            \* PWM objects constructed in one run

\* freq: int = 50
ServoFreq == 50

\* self._period_us = 1_000_000 / self.freq
PeriodUs == 1000000 \div ServoFreq

\* pulse widths handed to write_pulse_us, in microseconds
Pulses == { 500, 1000, 1500, 2000, 2500 }

\* what the port does when attach constructs the PWM object:
\*   ok                   PWM(pin, freq=...) succeeds
\*   fallback_ok          TypeError, then PWM(pin) and pwm.freq(...) succeed
\*   fallback_ctor_raises TypeError, then PWM(pin) raises
\*   fallback_freq_raises TypeError, then PWM(pin) succeeds and pwm.freq(...) raises
\*   ctor_raises          PWM(pin, freq=...) raises another exception
AttachOutcomes == {"ok", "fallback_ok", "fallback_ctor_raises", "fallback_freq_raises",
                   "ctor_raises"}

\* _pulse_us_to_duty: duty_u16 = int(duty_ns / period_ns * 65535), duty_ns
\* clipped to [0, period_ns]
DutyU16(pulse_us) == (Max2(0, Min2(PeriodUs, pulse_us)) * 65535) \div PeriodUs

\* deinit(): the PWM object held is released (an exception of pwm.deinit()
\* is swallowed), then _pwm = None and _attached = False
Servo_deinit(s) ==
    [s EXCEPT !.live = IF s.pwm # 0 THEN s.live \ {s.pwm} ELSE s.live,
              !.pwm = 0, !.attached = FALSE, !.duty = 0]

\* attach(): deinit() first if attached, then the construction; _attached is
\* set only when no exception left the method
Servo_attach(s, outcome) ==
    LET d   == IF s.attached THEN Servo_deinit(s) ELSE s
        new == d.made + 1
    IN  CASE outcome \in {"ok", "fallback_ok"} ->
                [d EXCEPT !.pwm = new, !.live = d.live \cup {new}, !.made = new,
                          !.duty = 0, !.attached = TRUE, !.raised = "none"]
          [] outcome = "fallback_freq_raises" ->
                [d EXCEPT !.pwm = new, !.live = d.live \cup {new}, !.made = new,
                          !.duty = 0, !.raised = "RuntimeError"]
          [] outcome = "fallback_ctor_raises" -> [d EXCEPT !.raised = "RuntimeError"]
          [] OTHER -> [d EXCEPT !.raised = "Exception"]

\* write_pulse_us(pulse_us): attach() if not attached, then pwm.duty_u16(...)
Servo_write_pulse_us(s, pulse_us, outcome) ==
    LET a == IF s.attached THEN [s EXCEPT !.raised = "none"] ELSE Servo_attach(s, outcome)
    IN  IF a.raised # "none" THEN a
        ELSE [a EXCEPT !.duty = DutyU16(pulse_us)]

InitServo ==
    /\ ParkedPID
    /\ ParkedDecoder
    /\ ParkedContexts
    /\ motor = MotorDriver_init
    /\ loop = [kind |-> "none", pc |-> "idle", i |-> 0]
    /\ sent = NoCommand
    /\ sample = NoSample
    /\ wizard = NoAnalysis
    /\ tuning = NoTuning
    /\ ctl = NoController
    /\ servo = NoServo

ServoAttach ==
    /\ servo.made < MaxPwm
    /\ \E outcome \in AttachOutcomes :
          servo' = [Servo_attach(servo, outcome) EXCEPT !.op = "attach"]
    /\ UNCHANGED <<pidVars, decVars, ctxVars, motor, loop, sent, sample, wizard,
                   tuning, ctl>>

ServoDeinit ==
    /\ servo' = [Servo_deinit(servo) EXCEPT !.op = "deinit", !.raised = "none"]
    /\ UNCHANGED <<pidVars, decVars, ctxVars, motor, loop, sent, sample, wizard,
                   tuning, ctl>>

ServoWritePulse ==
    /\ servo.made < MaxPwm
    /\ \E pulse_us \in Pulses, outcome \in AttachOutcomes :
          servo' = [Servo_write_pulse_us(servo, pulse_us, outcome)
                       EXCEPT !.op = "write_pulse_us"]
    /\ UNCHANGED <<pidVars, decVars, ctxVars, motor, loop, sent, sample, wizard,
                   tuning, ctl>>

NextServo == ServoAttach \/ ServoDeinit \/ ServoWritePulse

SpecServo == InitServo /\ [][NextServo]_vars

\* C40 (SpecServo): after any sequence of attach, deinit and write_pulse_us
\* calls, those in which the PWM construction or the frequency setup raises
\* included, _attached is true exactly when a PWM object is held (_pwm is not
\* None): no PWM object is left allocated while the servo reports itself
\* detached.
C40_AttachedIffPwmHeld ==
    /\ servo.attached <=> servo.pwm # 0
    /\ ~servo.attached => servo.live = {}

====
